---- MODULE Spec2Model ----
(***************************************************************************)
(* A model of the HDFC credit-card statement parser: the row machine of    *)
(* parse (src/src/main.rs), its parsing helpers, and the two-stage         *)
(* pipeline of main (parsing stage, channel, output stage).                *)
(*                                                                         *)
(* Text is modelled as a sequence of one-character strings, so that the    *)
(* helpers are computed character by character as the code computes them.  *)
(* The three non-ASCII characters the code names are written as the        *)
(* elements "RUPEE" (U+20B9), "BLACKCIRCLE" (U+25CF) and "BULLET" (U+2022).*)
(***************************************************************************)
EXTENDS Integers, Sequences, FiniteSets, TLC

\* ---------------------------------------------------------------- text

None == <<>>
Some(v) == <<v>>

Digits == {"0", "1", "2", "3", "4", "5", "6", "7", "8", "9"}

DigitVal(c) ==
  CASE c = "0" -> 0 [] c = "1" -> 1 [] c = "2" -> 2 [] c = "3" -> 3
    [] c = "4" -> 4 [] c = "5" -> 5 [] c = "6" -> 6 [] c = "7" -> 7
    [] c = "8" -> 8 [] c = "9" -> 9

DigitChar(n) ==
  CASE n = 0 -> "0" [] n = 1 -> "1" [] n = 2 -> "2" [] n = 3 -> "3"
    [] n = 4 -> "4" [] n = 5 -> "5" [] n = 6 -> "6" [] n = 7 -> "7"
    [] n = 8 -> "8" [] n = 9 -> "9"

IsSpace(c) == c = " "

AllDigits(s) == \A k \in 1..Len(s) : s[k] \in Digits

\* str::starts_with
StartsWith(s, p) == Len(p) <= Len(s) /\ SubSeq(s, 1, Len(p)) = p

\* str::contains
Contains(s, p) == \E k \in 0..(Len(s) - Len(p)) : SubSeq(s, k + 1, k + Len(p)) = p

RECURSIVE TrimStart(_)
TrimStart(s) == IF s # <<>> /\ IsSpace(Head(s)) THEN TrimStart(Tail(s)) ELSE s

RECURSIVE TrimEnd(_)
TrimEnd(s) ==
  IF s # <<>> /\ IsSpace(s[Len(s)]) THEN TrimEnd(SubSeq(s, 1, Len(s) - 1)) ELSE s

\* str::trim
Trim(s) == TrimEnd(TrimStart(s))

\* str::replace(c, "")
RemoveChar(s, c) == SelectSeq(s, LAMBDA ch : ch # c)

\* str::replace(from, to): non-overlapping matches, left to right
RECURSIVE Replace(_, _, _)
Replace(s, from, to) ==
  IF s = <<>> THEN <<>>
  ELSE IF StartsWith(s, from)
       THEN to \o Replace(SubSeq(s, Len(from) + 1, Len(s)), from, to)
       ELSE <<Head(s)>> \o Replace(Tail(s), from, to)

\* str::trim_start_matches(c)
RECURSIVE TrimStartMatches(_, _)
TrimStartMatches(s, c) ==
  IF s # <<>> /\ Head(s) = c THEN TrimStartMatches(Tail(s), c) ELSE s

\* [String]::join(sep)
RECURSIVE JoinStr(_, _)
JoinStr(parts, sep) ==
  IF parts = <<>> THEN <<>>
  ELSE IF Len(parts) = 1 THEN parts[1]
  ELSE parts[1] \o sep \o JoinStr(Tail(parts), sep)

\* index of the first element of s in the set cs, or 0
FirstIn(s, cs) ==
  IF \E k \in 1..Len(s) : s[k] \in cs
  THEN CHOOSE k \in 1..Len(s) : s[k] \in cs /\ \A j \in 1..(k - 1) : s[j] \notin cs
  ELSE 0

\* the value of a digit string (at most 9 digits after its leading zeros)
RECURSIVE DigitsToNat(_)
DigitsToNat(s) ==
  IF s = <<>> THEN 0 ELSE 10 * DigitsToNat(SubSeq(s, 1, Len(s) - 1)) + DigitVal(s[Len(s)])

RECURSIVE NatToDigits(_)
NatToDigits(n) ==
  IF n < 10 THEN <<DigitChar(n)>> ELSE NatToDigits(n \div 10) \o <<DigitChar(n % 10)>>

\* lexicographic a <= b on digit strings of equal length
RECURSIVE DigitsLE(_, _)
DigitsLE(a, b) ==
  IF a = <<>> THEN TRUE
  ELSE IF DigitVal(Head(a)) < DigitVal(Head(b)) THEN TRUE
  ELSE IF DigitVal(Head(a)) > DigitVal(Head(b)) THEN FALSE
  ELSE DigitsLE(Tail(a), Tail(b))

\* {:02} and {:04}
RECURSIVE Pad(_, _)
Pad(s, w) == IF Len(s) >= w THEN s ELSE Pad(<<"0">> \o s, w)

\* ---------------------------------------------------------------- numbers

(* i32: str::parse::<i32> takes an optional sign and one or more digits and *)
(* fails on overflow.                                                       *)
I32MaxDigits == <<"2", "1", "4", "7", "4", "8", "3", "6", "4", "7">>
I32MinDigits == <<"2", "1", "4", "7", "4", "8", "3", "6", "4", "8">>

ParseI32(s) ==
  LET neg == s # <<>> /\ Head(s) = "-"
      ds == IF s # <<>> /\ Head(s) \in {"+", "-"} THEN Tail(s) ELSE s
      sig == TrimStartMatches(ds, "0")
  IN  IF ds = <<>> \/ ~AllDigits(ds) THEN None
      ELSE IF Len(sig) > 10 THEN None
      ELSE IF Len(sig) = 10 /\ ~DigitsLE(sig, IF neg THEN I32MinDigits ELSE I32MaxDigits)
           THEN None
      ELSE IF Len(sig) = 10 /\ neg
           THEN Some(-10 * DigitsToNat(SubSeq(sig, 1, 9)) - DigitVal(sig[10]))
      ELSE Some(IF neg THEN -DigitsToNat(sig) ELSE DigitsToNat(sig))

\* i32::to_string
I32ToString(n) == IF n < 0 THEN <<"-">> \o NatToDigits(-n) ELSE NatToDigits(n)

(* f32.  A finite f32 is represented by its shortest decimal that reads    *)
(* back as the same f32, [neg, c, x] standing for (-1)^neg * c * 10^x with *)
(* c free of trailing zeros (c = 0 has x = 0).  A decimal numeral of at    *)
(* most 6 significant digits (f32::DIGITS) is the shortest decimal of the   *)
(* f32 it parses to, so parsing such a numeral only normalises it; the     *)
(* texts of the model stay within that precision.                          *)
F32(neg, c, x) == [neg |-> neg, c |-> c, x |-> x]
F32Zero == F32(FALSE, 0, 0)

RECURSIVE F32Norm(_, _, _)
F32Norm(neg, c, x) ==
  IF c = 0 THEN F32(neg, 0, 0)
  ELSE IF c % 10 = 0 THEN F32Norm(neg, c \div 10, x + 1)
  ELSE F32(neg, c, x)

\* f32::abs
F32Abs(a) == [a EXCEPT !.neg = FALSE]
\* unary minus on f32
F32Neg(a) == [a EXCEPT !.neg = ~a.neg]
\* a < 0.0 and a > 0.0 (both false of 0.0 and -0.0)
F32IsNegative(a) == a.neg /\ a.c # 0
F32IsPositive(a) == ~a.neg /\ a.c # 0

(* str::parse::<f32>: [sign] digits* ['.' digits*] [(e|E) [sign] digits+],  *)
(* with at least one mantissa digit and no white space.  (The words inf,   *)
(* infinity and nan also parse, but hold no '.', which parse requires of an *)
(* amount before it calls parse_amount.)                                    *)
ParseF32(s) ==
  LET neg == s # <<>> /\ Head(s) = "-"
      body == IF s # <<>> /\ Head(s) \in {"+", "-"} THEN Tail(s) ELSE s
      epos == FirstIn(body, {"e", "E"})
      mant == IF epos = 0 THEN body ELSE SubSeq(body, 1, epos - 1)
      expo == IF epos = 0 THEN <<>> ELSE SubSeq(body, epos + 1, Len(body))
      dot == FirstIn(mant, {"."})
      int == IF dot = 0 THEN mant ELSE SubSeq(mant, 1, dot - 1)
      frac == IF dot = 0 THEN <<>> ELSE SubSeq(mant, dot + 1, Len(mant))
      ev == IF epos = 0 THEN Some(0) ELSE ParseI32(expo)
  IN  IF ~AllDigits(int) \/ ~AllDigits(frac) \/ Len(int) + Len(frac) = 0 \/ ev = None
      THEN None
      ELSE Some(F32Norm(neg, DigitsToNat(TrimStartMatches(int \o frac, "0")),
                        ev[1] - Len(frac)))

\* 10^n copies of "0"
Zeros(n) == [k \in 1..n |-> "0"]

(* f32::to_string: the shortest decimal, written without an exponent.       *)
F32ToString(a) ==
  LET ds == NatToDigits(a.c)
      sign == IF a.neg THEN <<"-">> ELSE <<>>
  IN  IF a.x >= 0 THEN sign \o ds \o Zeros(a.x)
      ELSE IF Len(ds) > -a.x
           THEN sign \o SubSeq(ds, 1, Len(ds) + a.x) \o <<".">>
                     \o SubSeq(ds, Len(ds) + a.x + 1, Len(ds))
      ELSE sign \o <<"0", ".">> \o Zeros(-a.x - Len(ds)) \o ds

\* ---------------------------------------------------------------- dates

(* NaiveDateTime, as [y, mo, d, h, mi, s].                                  *)
DateTime(y, mo, d, h, mi, s) == [y |-> y, mo |-> mo, d |-> d, h |-> h, mi |-> mi, s |-> s]

\* Transaction::default: 1970-01-01 00:00:00
EpochDate == DateTime(1970, 1, 1, 0, 0, 0)

IsLeap(y) == (y % 4 = 0 /\ y % 100 # 0) \/ y % 400 = 0

DaysInMonth(y, mo) ==
  IF mo \in {4, 6, 9, 11} THEN 30
  ELSE IF mo = 2 THEN (IF IsLeap(y) THEN 29 ELSE 28)
  ELSE 31

(* The items of a chrono format string: a numeric field of at most w       *)
(* digits, a literal character, or white space.                             *)
Num(f, w) == [k |-> "num", f |-> f, w |-> w, c |-> ""]
Lit(c) == [k |-> "lit", f |-> "", w |-> 0, c |-> c]
Sp == [k |-> "sp", f |-> "", w |-> 0, c |-> ""]

FmtDate == <<Num("d", 2), Lit("/"), Num("mo", 2), Lit("/"), Num("y", 4)>>
FmtHM == <<Num("h", 2), Lit(":"), Num("mi", 2)>>
FmtHMS == FmtHM \o <<Lit(":"), Num("s", 2)>>

\* DATE_FORMATS, in the order the code tries them
DATE_FORMATS ==
  << FmtDate \o <<Lit("|"), Sp>> \o FmtHM,       \* "%d/%m/%Y| %H:%M"
     FmtDate \o <<Sp, Lit("|"), Sp>> \o FmtHM,   \* "%d/%m/%Y | %H:%M"
     FmtDate \o <<Sp>> \o FmtHMS >>              \* "%d/%m/%Y %H:%M:%S"

\* the length of the run of digits at the head of s, at most w
RECURSIVE DigitRun(_, _)
DigitRun(s, w) ==
  IF w = 0 \/ s = <<>> \/ Head(s) \notin Digits THEN 0 ELSE 1 + DigitRun(Tail(s), w - 1)

NoFields == [y |-> -1, mo |-> -1, d |-> -1, h |-> -1, mi |-> -1, s |-> -1]

(* chrono's parse: a numeric item skips white space and takes one to w     *)
(* digits, a literal must match, white space in the format matches any run *)
(* of white space (also none), and no input may be left over.  The result  *)
(* is the fields read (-1: not read), or None.                              *)
RECURSIVE ParseItems(_, _, _)
ParseItems(s, items, acc) ==
  IF items = <<>> THEN (IF s = <<>> THEN Some(acc) ELSE None)
  ELSE LET it == Head(items) IN
    IF it.k = "sp" THEN ParseItems(TrimStart(s), Tail(items), acc)
    ELSE IF it.k = "lit"
         THEN IF s # <<>> /\ Head(s) = it.c THEN ParseItems(Tail(s), Tail(items), acc)
              ELSE None
    ELSE LET t == TrimStart(s)
             n == DigitRun(t, it.w)
         IN  IF n = 0 THEN None
             ELSE ParseItems(SubSeq(t, n + 1, Len(t)), Tail(items),
                             [acc EXCEPT ![it.f] = DigitsToNat(SubSeq(t, 1, n))])

ValidDate(a) == a.mo \in 1..12 /\ a.d >= 1 /\ a.d <= DaysInMonth(a.y, a.mo)

\* NaiveDateTime::parse_from_str: seconds default to 0
ParseDateTimeFmt(s, fmt) ==
  LET r == ParseItems(s, fmt, NoFields) IN
  IF r = None THEN None
  ELSE LET a == r[1]
           sec == IF a.s = -1 THEN 0 ELSE a.s
       IN  IF ValidDate(a) /\ a.h <= 23 /\ a.mi <= 59 /\ sec <= 60
           THEN Some(DateTime(a.y, a.mo, a.d, a.h, a.mi, sec))
           ELSE None

\* NaiveDate::parse_from_str(s, "%d/%m/%Y")
ParseDateOnly(s) ==
  LET r == ParseItems(s, FmtDate, NoFields) IN
  IF r = None THEN None
  ELSE IF ValidDate(r[1]) THEN Some(DateTime(r[1].y, r[1].mo, r[1].d, 0, 0, 0))
  ELSE None

parse_transaction_date(s) ==
  IF ParseDateTimeFmt(s, DATE_FORMATS[1]) # None THEN ParseDateTimeFmt(s, DATE_FORMATS[1])
  ELSE IF ParseDateTimeFmt(s, DATE_FORMATS[2]) # None THEN ParseDateTimeFmt(s, DATE_FORMATS[2])
  ELSE IF ParseDateTimeFmt(s, DATE_FORMATS[3]) # None THEN ParseDateTimeFmt(s, DATE_FORMATS[3])
  ELSE ParseDateOnly(s)

\* NaiveDateTime::to_string: "YYYY-MM-DD HH:MM:SS"
DateToString(dt) ==
  Pad(NatToDigits(dt.y), 4) \o <<"-">> \o Pad(NatToDigits(dt.mo), 2) \o <<"-">>
    \o Pad(NatToDigits(dt.d), 2) \o <<" ">> \o Pad(NatToDigits(dt.h), 2) \o <<":">>
    \o Pad(NatToDigits(dt.mi), 2) \o <<":">> \o Pad(NatToDigits(dt.s), 2)

\* ---------------------------------------------------------------- amounts, points

\* parse_amount that does not remove the thousands separators
parse_amount_keeps_commas(s, is_credit) ==
  LET clean == Trim(RemoveChar(RemoveChar(s, "RUPEE"), "RUPEE"))
      plus == StartsWith(clean, <<"+">>)
      credit == IF plus THEN TRUE ELSE is_credit
      num_str == IF plus THEN Trim(TrimStartMatches(clean, "+")) ELSE clean
      r == ParseF32(num_str)
  IN  IF r = None THEN None
      ELSE Some(IF credit THEN r[1] ELSE F32Neg(r[1]))

parse_amount(s, is_credit) ==
  LET clean == Trim(RemoveChar(RemoveChar(RemoveChar(s, "RUPEE"), "RUPEE"), ","))
      plus == StartsWith(clean, <<"+">>)
      credit == IF plus THEN TRUE ELSE is_credit
      num_str == IF plus THEN Trim(TrimStartMatches(clean, "+")) ELSE clean
      r == ParseF32(num_str)
  IN  IF r = None THEN None
      ELSE Some(IF credit THEN r[1] ELSE F32Neg(r[1]))

parse_points(s) ==
  ParseI32(Trim(Replace(Replace(s, <<"+", " ">>, <<"+">>), <<"-", " ">>, <<"-">>)))

\* ---------------------------------------------------------------- classification

SECTION_TERMINATORS ==
  { <<"E", "l", "i", "g", "i", "b", "l", "e", " ", "f", "o", "r", " ", "E", "M", "I">>,
    <<"E", "l", "i", "g", "i", "b", "l", "e", " ", "f", "o", "r">>,
    <<"T", "R", "A", "N", "S", "A", "C", "T", "I", "O", "N", "S">>,
    <<"P", "a", "s", "t", " ", "D", "u", "e", "s">>,
    <<"G", "S", "T", " ", "S", "u", "m", "m", "a", "r", "y">>,
    <<"R", "e", "w", "a", "r", "d", "s", " ", "P", "r", "o", "g", "r", "a", "m", " ",
      "P", "o", "i", "n", "t", "s", " ", "S", "u", "m", "m", "a", "r", "y">>,
    <<"O", "f", "f", "e", "r", "s", " ", "o", "n", " ", "y", "o", "u", "r", " ",
      "c", "a", "r", "d">>,
    <<"T", "O", "T", "A", "L", " ", "A", "M", "O", "U", "N", "T">>,
    <<"C", "O", "N", "V", "E", "R", "T", " ", "T", "O", " ", "E", "M", "I">> }

FOREIGN_CURRENCY_PREFIXES ==
  { <<"U", "S", "D", " ">>, <<"J", "P", "Y", " ">>, <<"M", "Y", "R", " ">>,
    <<"E", "U", "R", " ">>, <<"G", "B", "P", " ">>, <<"S", "G", "D", " ">>,
    <<"A", "U", "D", " ">>, <<"T", "H", "B", " ">> }

is_section_terminator(text) ==
  \/ text \in SECTION_TERMINATORS
  \/ StartsWith(text, <<"*", "T", "r", "a", "n", "s", "a", "c", "t", "i", "o", "n", " ",
                        "t", "i", "m", "e">>)

is_page_header(text) ==
  \/ text = <<"I", "n", "f", "i", "n", "i", "a", " ", "C", "r", "e", "d", "i", "t", " ",
              "C", "a", "r", "d", " ", "S", "t", "a", "t", "e", "m", "e", "n", "t">>
  \/ StartsWith(text, <<"H", "S", "N", " ", "C", "o", "d", "e", ":">>)
  \/ StartsWith(text, <<"H", "D", "F", "C", " ", "B", "a", "n", "k", " ", "C", "r", "e",
                        "d", "i", "t", " ", "C", "a", "r", "d", "s", " ", "G", "S", "T",
                        "I", "N", ":">>)
  \/ Contains(text, <<"G", "S", "T", "I", "N", ":", " ", "3", "3", "A", "A", "A", "C", "H">>)

is_page_number(text) ==
  StartsWith(text, <<"P", "a", "g", "e", " ">>) /\ Contains(text, <<" ", "o", "f", " ">>)

\* is_foreign_currency that compares with == where the code uses starts_with
is_foreign_currency_exact(text) == text \in FOREIGN_CURRENCY_PREFIXES

is_foreign_currency(text) == \E prefix \in FOREIGN_CURRENCY_PREFIXES : StartsWith(text, prefix)

is_skippable_symbol(text) ==
  text \in { <<"+">>, <<"C">>, <<"RUPEE">>, <<"l">>, <<"BLACKCIRCLE">>, <<"BULLET">>,
             <<"C", "r">> }

SectionStartLabels ==
  { <<"D", "o", "m", "e", "s", "t", "i", "c", " ", "T", "r", "a", "n", "s", "a", "c", "t",
      "i", "o", "n", "s">>,
    <<"I", "n", "t", "e", "r", "n", "a", "t", "i", "o", "n", "a", "l", " ", "T", "r", "a",
      "n", "s", "a", "c", "t", "i", "o", "n", "s">> }

\* ---------------------------------------------------------------- row machine

Transaction(date, description, points, amount) ==
  [date |-> date, description |-> description, points |-> points, amount |-> amount]

\* Transaction::default
TransactionDefault == Transaction(EpochDate, <<>>, 0, F32Zero)

\* ParserState::new
ParserStateNew ==
  [ in_transactions |-> FALSE, past_header |-> FALSE, skip_next_non_date |-> FALSE,
    in_row |-> FALSE, has_amount |-> FALSE, is_credit |-> FALSE,
    transaction |-> TransactionDefault, desc_parts |-> <<>> ]

\* Transaction::emit: the record handed to the channel
emit(t) ==
  <<DateToString(t.date), t.description, I32ToString(t.points), F32ToString(t.amount)>>

\* flush_transaction without the test for an empty description
flush_transaction_any(st) ==
  IF st.in_row
  THEN LET t == IF st.desc_parts # <<>>
                THEN [st.transaction EXCEPT !.description = JoinStr(st.desc_parts, <<" ">>)]
                ELSE st.transaction
       IN  [st |-> [st EXCEPT !.transaction = t], out |-> <<t>>]
  ELSE [st |-> st, out |-> <<>>]

(* ParserState::flush_transaction: the state it leaves and the transactions *)
(* it emits (none or one).                                                  *)
flush_transaction(st) ==
  IF st.in_row /\ st.transaction.description # <<>>
  THEN LET t == IF st.desc_parts # <<>>
                THEN [st.transaction EXCEPT !.description = JoinStr(st.desc_parts, <<" ">>)]
                ELSE st.transaction
       IN  [st |-> [st EXCEPT !.transaction = t], out |-> <<t>>]
  ELSE [st |-> st, out |-> <<>>]

\* start_new_transaction that leaves is_credit as it is
start_new_transaction_keeps_credit(st, date) ==
  [st EXCEPT !.transaction = [TransactionDefault EXCEPT !.date = date],
             !.in_row = TRUE, !.has_amount = FALSE, !.desc_parts = <<>>]

\* start_new_transaction that leaves desc_parts as they are
start_new_transaction_keeps_parts(st, date) ==
  [st EXCEPT !.transaction = [TransactionDefault EXCEPT !.date = date],
             !.in_row = TRUE, !.has_amount = FALSE, !.is_credit = FALSE]

\* ParserState::start_new_transaction
start_new_transaction(st, date) ==
  [st EXCEPT !.transaction = [TransactionDefault EXCEPT !.date = date],
             !.in_row = TRUE, !.has_amount = FALSE, !.is_credit = FALSE,
             !.desc_parts = <<>>]

\* exit_section that leaves the accumulated description parts
exit_section_keeps_parts(st) ==
  [st EXCEPT !.in_transactions = FALSE, !.transaction = TransactionDefault,
             !.in_row = FALSE, !.has_amount = FALSE]

\* exit_section that leaves the machine inside the section
exit_section_keeps_section(st) ==
  [st EXCEPT !.transaction = TransactionDefault,
             !.in_row = FALSE, !.has_amount = FALSE, !.desc_parts = <<>>]

\* ParserState::exit_section
exit_section(st) ==
  [st EXCEPT !.in_transactions = FALSE, !.transaction = TransactionDefault,
             !.in_row = FALSE, !.has_amount = FALSE, !.desc_parts = <<>>]

(* The outcome of the loop body for one fragment: the state it leaves, the  *)
(* transactions it emits, and the branch of the loop body that handled the *)
(* fragment.                                                                *)
Outcome(rule, st, out) == [rule |-> rule, st |-> st, out |-> out]

PI == <<"P", "I">>

(* The body of parse's loop over the texts of a page, from the test for a   *)
(* section terminator on: text is a fragment received inside a section,    *)
(* past its header and not absorbed by the one-shot skip.                   *)
classify(st, text) ==
  IF is_section_terminator(text)
  THEN LET f == flush_transaction(st) IN Outcome("section_end", exit_section(f.st), f.out)
  ELSE IF parse_transaction_date(text) # None
  THEN LET f == flush_transaction(st)
       IN  Outcome("new_date",
                   start_new_transaction(f.st, parse_transaction_date(text)[1]), f.out)
  ELSE IF ~st.in_row THEN Outcome("not_in_row", st, <<>>)
  ELSE IF is_skippable_symbol(text)
  THEN IF text = <<"+">> THEN Outcome("symbol", [st EXCEPT !.is_credit = TRUE], <<>>)
       ELSE IF text = <<"C", "r">>
       THEN Outcome("symbol",
                    [st EXCEPT !.transaction.amount = F32Abs(st.transaction.amount)], <<>>)
       ELSE Outcome("symbol", st, <<>>)
  ELSE IF is_page_number(text) \/ is_page_header(text) THEN Outcome("furniture", st, <<>>)
  ELSE IF is_foreign_currency(text)
  THEN Outcome("foreign", [st EXCEPT !.desc_parts = Append(st.desc_parts, text)], <<>>)
  ELSE IF Contains(text, <<".">>) /\ parse_amount(text, st.is_credit) # None
  THEN Outcome("amount",
               [st EXCEPT !.transaction.amount = parse_amount(text, st.is_credit)[1],
                          !.has_amount = TRUE, !.is_credit = FALSE], <<>>)
  ELSE IF parse_points(text) # None
  THEN Outcome("points", [st EXCEPT !.transaction.points = parse_points(text)[1]], <<>>)
  ELSE IF st.has_amount THEN Outcome("post_amount", st, <<>>)
  ELSE Outcome("description",
               [st EXCEPT !.desc_parts = Append(st.desc_parts, text),
                          !.transaction.description =
                             IF st.transaction.description = <<>> THEN text
                             ELSE st.transaction.description], <<>>)

\* the body of the loop, were the one-shot skip cleared by a date only
process_text_keeps_skip(st, text, cardholder_name) ==
  IF text \in SectionStartLabels
  THEN Outcome("section_start",
               [st EXCEPT !.in_transactions = TRUE, !.past_header = FALSE], <<>>)
  ELSE IF ~st.in_transactions THEN Outcome("outside", st, <<>>)
  ELSE IF ~st.past_header
  THEN IF text = cardholder_name \/ text = PI
       THEN Outcome("past_header",
                    [st EXCEPT !.past_header = TRUE, !.skip_next_non_date = TRUE], <<>>)
       ELSE Outcome("header", st, <<>>)
  ELSE IF st.skip_next_non_date /\ parse_transaction_date(text) = None
  THEN Outcome("skip", st, <<>>)
  ELSE classify([st EXCEPT !.skip_next_non_date = FALSE], text)

(* The whole body of the loop for one fragment: section start, outside a   *)
(* section, header region, one-shot skip, then classify.                    *)
process_text(st, text, cardholder_name) ==
  IF text \in SectionStartLabels
  THEN Outcome("section_start",
               [st EXCEPT !.in_transactions = TRUE, !.past_header = FALSE], <<>>)
  ELSE IF ~st.in_transactions THEN Outcome("outside", st, <<>>)
  ELSE IF ~st.past_header
  THEN IF text = cardholder_name \/ text = PI
       THEN Outcome("past_header",
                    [st EXCEPT !.past_header = TRUE, !.skip_next_non_date = TRUE], <<>>)
       ELSE Outcome("header", st, <<>>)
  ELSE IF st.skip_next_non_date /\ parse_transaction_date(text) = None
  THEN Outcome("skip", [st EXCEPT !.skip_next_non_date = FALSE], <<>>)
  ELSE classify([st EXCEPT !.skip_next_non_date = FALSE], text)

\* ---------------------------------------------------------------- pages

(* A content-stream operator: a text draw carries its bytes, which are     *)
(* valid UTF-8 (then text is what they spell) or not.                       *)
TextDraw(text) == [op |-> "TextDraw", utf8 |-> TRUE, text |-> text]
BadTextDraw == [op |-> "TextDraw", utf8 |-> FALSE, text |-> <<>>]
OtherOp == [op |-> "Other", utf8 |-> TRUE, text |-> <<>>]

\* extract_page_texts without the filter for texts that are empty once trimmed
RECURSIVE extract_page_texts_keeps_blank(_)
extract_page_texts_keeps_blank(ops) ==
  IF ops = <<>> THEN <<>>
  ELSE LET o == Head(ops)
           rest == extract_page_texts_keeps_blank(Tail(ops))
       IN  IF o.op = "TextDraw" /\ o.utf8
           THEN <<Trim(o.text)>> \o rest
           ELSE rest

\* extract_page_texts
RECURSIVE extract_page_texts(_)
extract_page_texts(ops) ==
  IF ops = <<>> THEN <<>>
  ELSE LET o == Head(ops)
           rest == extract_page_texts(Tail(ops))
       IN  IF o.op = "TextDraw" /\ o.utf8 /\ Trim(o.text) # <<>>
           THEN <<Trim(o.text)>> \o rest
           ELSE rest

(* A page of a document: load is "ok", or the step of parse that fails     *)
(* for it ("page": the page object, "contents": no content stream, "ops":  *)
(* the content stream yields no operators).                                 *)
Page(load, ops) == [load |-> load, ops |-> ops]
PageOfTexts(ts) == Page("ok", [k \in 1..Len(ts) |-> TextDraw(ts[k])])

\* A document: its path, whether open_password succeeds, and its pages.
Document(path, opens, pgs) == [path |-> path, opens |-> opens, pages |-> pgs]

\* ---------------------------------------------------------------- summary

RECURSIVE Pow10(_)
Pow10(n) == IF n = 0 THEN 1 ELSE 10 * Pow10(n - 1)

(* f32 addition, as the exact sum of the two decimals: exact for the       *)
(* amounts of the model, whose sums are f32 values of few digits.           *)
F32Add(a, b) ==
  LET m == IF a.x < b.x THEN a.x ELSE b.x
      va == (IF a.neg THEN -1 ELSE 1) * a.c * Pow10(a.x - m)
      vb == (IF b.neg THEN -1 ELSE 1) * b.c * Pow10(b.x - m)
      v == va + vb
  IN  IF v = 0 THEN F32(a.neg /\ b.neg, 0, 0)
      ELSE IF v < 0 THEN F32Norm(TRUE, -v, m)
      ELSE F32Norm(FALSE, v, m)

\* char::to_uppercase on the letters a-z
Upper(c) ==
  CASE c = "a" -> "A" [] c = "b" -> "B" [] c = "c" -> "C" [] c = "d" -> "D"
    [] c = "e" -> "E" [] c = "f" -> "F" [] c = "g" -> "G" [] c = "h" -> "H"
    [] c = "i" -> "I" [] c = "j" -> "J" [] c = "k" -> "K" [] c = "l" -> "L"
    [] c = "m" -> "M" [] c = "n" -> "N" [] c = "o" -> "O" [] c = "p" -> "P"
    [] c = "q" -> "Q" [] c = "r" -> "R" [] c = "s" -> "S" [] c = "t" -> "T"
    [] c = "u" -> "U" [] c = "v" -> "V" [] c = "w" -> "W" [] c = "x" -> "X"
    [] c = "y" -> "Y" [] c = "z" -> "Z" [] OTHER -> c

to_uppercase(s) == [k \in 1..Len(s) |-> Upper(s[k])]

is_bill_payment(description) ==
  Contains(to_uppercase(description),
           <<"C", "R", "E", "D", "I", "T", " ", "C", "A", "R", "D", " ",
             "P", "A", "Y", "M", "E", "N", "T">>)

\* parse_record: the description, points and amount of a record
parse_record(record) ==
  [ description |-> IF Len(record) >= 2 THEN record[2] ELSE <<>>,
    points |-> IF Len(record) >= 3 /\ ParseI32(record[3]) # None
               THEN ParseI32(record[3])[1] ELSE 0,
    amount |-> IF Len(record) >= 4 /\ ParseF32(record[4]) # None
               THEN ParseF32(record[4])[1] ELSE F32Zero ]

SummaryDefault ==
  [total_spent |-> F32Zero, bill_payment |-> F32Zero, total_points |-> 0,
   category_totals |-> <<>>, uncategorized |-> F32Zero, transaction_count |-> 0]

(* A categories file: category names to their lists of patterns, a         *)
(* HashMap.  A HashMap is iterated in an order of its keys that its hasher *)
(* decides, a new one in every process: order is that order, and any       *)
(* order of the keys can be it.                                             *)
IterationOrders(categories) ==
  IF categories = None THEN {<<>>}
  ELSE LET keys == DOMAIN categories[1] IN
       { o \in [1..Cardinality(keys) -> keys] :
           \A j, k \in 1..Cardinality(keys) : j # k => o[j] # o[k] }

(* categorize: the first category, in the order of iteration, one of whose *)
(* patterns is in the description, both in upper case.                      *)
categorize(description, categories, order) ==
  LET desc_upper == to_uppercase(description)
      hits == { k \in 1..Len(order) :
                  \E j \in 1..Len(categories[order[k]]) :
                    Contains(desc_upper, to_uppercase(categories[order[k]][j])) }
  IN  IF hits = {} THEN None
      ELSE Some(order[CHOOSE k \in hits : \A j \in hits : k <= j])

\* *category_totals.entry(category).or_insert(0.0) += spent
AddToCategory(totals, category, spent) ==
  IF category \in DOMAIN totals
  THEN [totals EXCEPT ![category] = F32Add(@, spent)]
  ELSE (category :> F32Add(F32(FALSE, 0, 0), spent)) @@ totals

\* calculate_summary, the body of the loop for one record
add_record(sm, r, categories, order) ==
  LET counted == [sm EXCEPT !.transaction_count = @ + 1,
                            !.total_points = @ + r.points]
  IN  IF is_bill_payment(r.description)
      THEN [counted EXCEPT !.bill_payment = F32Add(@, r.amount)]
      ELSE IF F32IsNegative(r.amount)
      THEN LET spent == F32Abs(r.amount)
               with_spent == [counted EXCEPT !.total_spent = F32Add(@, spent)]
           IN  IF categories = None THEN with_spent
               ELSE LET c == categorize(r.description, categories[1], order)
                    IN  IF c # None
                        THEN [with_spent EXCEPT
                                !.category_totals = AddToCategory(@, c[1], spent)]
                        ELSE [with_spent EXCEPT !.uncategorized = F32Add(@, spent)]
      ELSE counted

RECURSIVE summary_from(_, _, _, _, _)
summary_from(sm, records, k, categories, order) ==
  IF k > Len(records) THEN sm
  ELSE summary_from(add_record(sm, parse_record(records[k]), categories, order),
                    records, k + 1, categories, order)

\* calculate_summary, the categories iterated in the given order
calculate_summary(records, categories, order) ==
  summary_from(SummaryDefault, records, 1, categories, order)

\* ---------------------------------------------------------------- results, errors

Running == <<"running">>
Ok == <<"Ok">>
Err(e) == <<"Err", e>>
IsErr(r) == r[1] = "Err"

\* anyhow's context: the new context in front of the chain of causes
Context(e, ctx) == <<ctx>> \o e

OpenError(p) == Context(<<<<"PdfError">>>>, <<"failed to open file", p>>)
SendError == Context(<<<<"SendError">>>>, <<"Failed to send transaction to writer">>)
HeaderError == Context(<<<<"csv::Error">>>>, <<"Failed to write headers">>)
RowError == Context(<<<<"csv::Error">>>>, <<"Failed to write row">>)
FlushError == Context(<<<<"io::Error">>>>, <<"Error flushing to stdout">>)

HeaderRecord ==
  << <<"D", "a", "t", "e">>,
     <<"D", "e", "s", "c", "r", "i", "p", "t", "i", "o", "n">>,
     <<"P", "o", "i", "n", "t", "s">>,
     <<"A", "m", "o", "u", "n", "t">> >>

\* ---------------------------------------------------------------- state

VARIABLES
  args,         \* the command line: name, addheaders, summary, categories
  batch,        \* pdf_files as collected (and sorted) by main
  pdf_files,    \* the files main's loop has still to parse
  main_pc,      \* main: "files" | "pages" | "texts" | "join" | "done"
  main_result,  \* what main returns
  path,         \* parse: the file being parsed
  pages,        \* parse: the pages of the file still to come
  texts,        \* parse: the texts of the page being read
  i,            \* parse: the index in texts of the next text
  state,        \* parse: the ParserState of the page
  tx,           \* the Sender exists
  rx,           \* the Receiver exists
  chan,         \* the records sent and not yet received
  w_pc,         \* writer thread: "start" | "rows" | "collect" | "done"
  w_result,     \* what the writer thread returns
  stdout,       \* the records written to the CSV writer
  records,      \* summary mode: the records collected
  summary,      \* summary mode: the summary printed, or None
  opened,       \* history: the paths parse was called with
  emitted,      \* history: the transactions sent, with file and row
  rules,        \* history: per text read of this page, the branch that handled it
  anchor,       \* history: the index in texts of the date that started the last row
  given,        \* the transactions a synthetic page was rendered from (else none)
  page,         \* pdf_tools: the page page_text is called with
  text_pc,      \* page_text: "contents" | "ops" | "done"
  font_cache,   \* ops_with_text_state: the FontCache of the scan, or None
  ops,          \* ops_with_text_state: the operators of the content stream
  next_op,      \* ops_with_text_state: the index in ops of the next operator
  heap,         \* the TextStates allocated by Rc::new, by address
  text_state,   \* ops_with_text_state: the address the scan's state holds
  yielded,      \* history: the (op, state) pairs yielded, with the value of the state then
  page_out,     \* page_text: out, the output buffer
  text_result   \* what page_text returns

vars == << args, batch, pdf_files, main_pc, main_result, path, pages, texts, i, state,
           tx, rx, chan, w_pc, w_result, stdout, records, summary,
           opened, emitted, rules, anchor, given,
           page, text_pc, font_cache, ops, next_op, heap, text_state, yielded, page_out,
           text_result >>

parse_vars == <<path, pages, texts, i, state, opened, emitted, rules, anchor>>
writer_vars == <<rx, w_pc, w_result, stdout, records, summary>>
text_vars ==
  <<page, text_pc, font_cache, ops, next_op, heap, text_state, yielded, page_out,
    text_result>>
pipeline_vars ==
  <<args, given, batch, pdf_files, main_pc, main_result, tx, chan, parse_vars, writer_vars>>

\* ---------------------------------------------------------------- parsing stage

(* The loop over pdf_files, were a file that does not open passed over.    *)
OpenFile_skips_unopened ==
  /\ main_pc = "files" /\ pdf_files # <<>>
  /\ LET f == Head(pdf_files) IN
       /\ pdf_files' = Tail(pdf_files)
       /\ opened' = Append(opened, f.path)
       /\ path' = f.path
       /\ IF f.opens
          THEN /\ pages' = f.pages
               /\ main_pc' = "pages"
          ELSE UNCHANGED <<pages, main_pc>>
  /\ UNCHANGED <<text_vars, args, given, batch, main_result, texts, i, state, emitted, rules,
                 anchor,
                 tx, chan>>
  /\ UNCHANGED writer_vars

(* main, the loop over pdf_files: parse is called with the next file and   *)
(* opens it; a file that does not open ends main with the error.            *)
OpenFile ==
  /\ main_pc = "files" /\ pdf_files # <<>>
  /\ LET f == Head(pdf_files) IN
       /\ pdf_files' = Tail(pdf_files)
       /\ opened' = Append(opened, f.path)
       /\ path' = f.path
       /\ IF f.opens
          THEN /\ pages' = f.pages
               /\ main_pc' = "pages"
               /\ UNCHANGED main_result
          ELSE /\ main_result' = Err(Context(OpenError(f.path), <<"Failed to parse statement">>))
               /\ main_pc' = "done"
               /\ UNCHANGED pages
  /\ UNCHANGED <<text_vars, args, given, batch, texts, i, state, emitted, rules, anchor, tx,
                 chan>>
  /\ UNCHANGED writer_vars

(* parse, the loop over the pages: a page that does not load, has no       *)
(* contents or yields no operators is passed over; otherwise its texts are *)
(* extracted and a new ParserState made.  After the last page parse        *)
(* parse, the loop over the pages, were the ParserState made once for the  *)
(* file and not for each page.                                              *)
NextPage_keeps_state ==
  /\ main_pc = "pages"
  /\ IF pages = <<>>
     THEN /\ main_pc' = "files"
          /\ UNCHANGED <<pages, texts, i, state, rules, anchor>>
     ELSE /\ pages' = Tail(pages)
          /\ IF Head(pages).load = "ok"
             THEN /\ texts' = extract_page_texts(Head(pages).ops)
                  /\ UNCHANGED state
                  /\ i' = 1
                  /\ rules' = <<>>
                  /\ anchor' = 0
                  /\ main_pc' = "texts"
             ELSE UNCHANGED <<main_pc, texts, i, state, rules, anchor>>
  /\ UNCHANGED <<text_vars, args, given, batch, pdf_files, main_result, path, opened, emitted,
                 tx, chan>>
  /\ UNCHANGED writer_vars

(* returns Ok.                                                              *)
NextPage ==
  /\ main_pc = "pages"
  /\ IF pages = <<>>
     THEN /\ main_pc' = "files"
          /\ UNCHANGED <<pages, texts, i, state, rules, anchor>>
     ELSE /\ pages' = Tail(pages)
          /\ IF Head(pages).load = "ok"
             THEN /\ texts' = extract_page_texts(Head(pages).ops)
                  /\ state' = ParserStateNew
                  /\ i' = 1
                  /\ rules' = <<>>
                  /\ anchor' = 0
                  /\ main_pc' = "texts"
             ELSE UNCHANGED <<main_pc, texts, i, state, rules, anchor>>
  /\ UNCHANGED <<text_vars, args, given, batch, pdf_files, main_result, path, opened, emitted,
                 tx, chan>>
  /\ UNCHANGED writer_vars

(* The history entries of the transactions out: the file, the index of the *)
(* date that started the row, the index of the text at which it is emitted *)
(* (one past the last at the end of the page), and the texts of the row    *)
(* after its date with the branches that handled them.                      *)
Emitted(out) ==
  [k \in 1..Len(out) |->
     [t |-> out[k], path |-> path, from |-> anchor, at |-> i,
      row |-> SubSeq(texts, anchor + 1, i - 1), how |-> SubSeq(rules, anchor + 1, i - 1)]]

\* Sender::send of each transaction of out, which fails once the Receiver is gone
SendFails(out) == out # <<>> /\ ~rx

\* a channel that hands the newest record over first
Sent_in_front(out) == [k \in 1..Len(out) |-> emit(out[k])] \o chan

Sent(out) == chan \o [k \in 1..Len(out) |-> emit(out[k])]

(* parse, the body of the loop over the texts of a page, for the next text. *)
Fragment ==
  /\ main_pc = "texts" /\ i <= Len(texts)
  /\ LET r == process_text(state, texts[i], args.name) IN
       IF SendFails(r.out)
       THEN /\ main_result' = Err(Context(SendError, <<"Failed to parse statement">>))
            /\ main_pc' = "done"
            /\ UNCHANGED <<state, i, chan, emitted, rules, anchor>>
       ELSE /\ state' = r.st
            /\ i' = i + 1
            /\ chan' = Sent(r.out)
            /\ emitted' = emitted \o Emitted(r.out)
            /\ rules' = Append(rules, r.rule)
            /\ anchor' = IF r.rule = "new_date" THEN i ELSE anchor
            /\ UNCHANGED <<main_pc, main_result>>
  /\ UNCHANGED <<text_vars, args, given, batch, pdf_files, path, pages, texts, opened, tx>>
  /\ UNCHANGED writer_vars

(* parse, after the last text of a page: the last transaction is flushed.   *)
PageEnd ==
  /\ main_pc = "texts" /\ i > Len(texts)
  /\ LET f == flush_transaction(state) IN
       IF SendFails(f.out)
       THEN /\ main_result' = Err(Context(SendError, <<"Failed to parse statement">>))
            /\ main_pc' = "done"
            /\ UNCHANGED <<state, chan, emitted>>
       ELSE /\ state' = f.st
            /\ chan' = Sent(f.out)
            /\ emitted' = emitted \o Emitted(f.out)
            /\ main_pc' = "pages"
            /\ UNCHANGED main_result
  /\ UNCHANGED <<text_vars, args, given, batch, pdf_files, path, pages, texts, i, rules,
                 anchor, opened, tx>>
  /\ UNCHANGED writer_vars

(* main, were the Sender kept until main returns.                           *)
DropSender_keeps_tx ==
  /\ main_pc = "files" /\ pdf_files = <<>>
  /\ main_pc' = "join"
  /\ UNCHANGED <<text_vars, args, given, batch, pdf_files, main_result, tx, chan>>
  /\ UNCHANGED parse_vars
  /\ UNCHANGED writer_vars

(* main, after the loop: drop(tx).                                          *)
DropSender ==
  /\ main_pc = "files" /\ pdf_files = <<>>
  /\ tx' = FALSE
  /\ main_pc' = "join"
  /\ UNCHANGED <<text_vars, args, given, batch, pdf_files, main_result, chan>>
  /\ UNCHANGED parse_vars
  /\ UNCHANGED writer_vars

(* main, were the result of the writer thread not looked at.                *)
Join_ignores_writer ==
  /\ main_pc = "join" /\ w_pc = "done"
  /\ main_result' = Ok
  /\ main_pc' = "done"
  /\ UNCHANGED <<text_vars, args, given, batch, pdf_files, tx, chan>>
  /\ UNCHANGED parse_vars
  /\ UNCHANGED writer_vars

(* main, writer_thread.join(): main returns what the writer returned.       *)
Join ==
  /\ main_pc = "join" /\ w_pc = "done"
  /\ main_result' = w_result
  /\ main_pc' = "done"
  /\ UNCHANGED <<text_vars, args, given, batch, pdf_files, tx, chan>>
  /\ UNCHANGED parse_vars
  /\ UNCHANGED writer_vars

\* ---------------------------------------------------------------- output stage

(* The writer thread runs until main returns (the process then exits).      *)
WriterRuns == main_pc # "done"

(* The writer thread's first step: summary mode starts collecting; CSV     *)
(* mode writes the header record if asked to, which may fail.               *)
WriterStart ==
  /\ WriterRuns /\ w_pc = "start"
  /\ IF args.summary
     THEN /\ w_pc' = "collect"
          /\ UNCHANGED <<rx, w_result, stdout, chan>>
     ELSE IF args.addheaders
     THEN \E ok \in BOOLEAN :
            IF ok
            THEN /\ stdout' = Append(stdout, HeaderRecord)
                 /\ w_pc' = "rows"
                 /\ UNCHANGED <<rx, w_result, chan>>
            ELSE /\ w_result' = Err(HeaderError)
                 /\ w_pc' = "done"
                 /\ rx' = FALSE
                 /\ chan' = <<>>
                 /\ UNCHANGED stdout
     ELSE /\ w_pc' = "rows"
          /\ UNCHANGED <<rx, w_result, stdout, chan>>
  /\ UNCHANGED <<text_vars, args, given, batch, pdf_files, main_pc, main_result, tx, records,
                 summary>>
  /\ UNCHANGED parse_vars

(* CSV mode, one turn of `for record in rx`: the next record is received   *)
(* and written; a failed write ends the thread with the error and drops    *)
(* the Receiver.                                                            *)
WriteRow ==
  /\ WriterRuns /\ w_pc = "rows" /\ chan # <<>>
  /\ \E ok \in BOOLEAN :
       IF ok
       THEN /\ stdout' = Append(stdout, Head(chan))
            /\ chan' = Tail(chan)
            /\ UNCHANGED <<rx, w_pc, w_result>>
       ELSE /\ w_result' = Err(RowError)
            /\ w_pc' = "done"
            /\ rx' = FALSE
            /\ chan' = <<>>
            /\ UNCHANGED stdout
  /\ UNCHANGED <<text_vars, args, given, batch, pdf_files, main_pc, main_result, tx, records,
                 summary>>
  /\ UNCHANGED parse_vars

(* CSV mode, the end of the loop: the channel is empty and the Sender      *)
(* dropped; the writer is flushed, which may fail.                          *)
WriterFlush ==
  /\ WriterRuns /\ w_pc = "rows" /\ chan = <<>> /\ ~tx
  /\ \E ok \in BOOLEAN : w_result' = IF ok THEN Ok ELSE Err(FlushError)
  /\ w_pc' = "done"
  /\ rx' = FALSE
  /\ UNCHANGED <<text_vars, args, given, batch, pdf_files, main_pc, main_result, tx, chan,
                 stdout, records,
                 summary>>
  /\ UNCHANGED parse_vars

(* Summary mode, rx.into_iter().collect(): the next record is collected.    *)
Collect ==
  /\ WriterRuns /\ w_pc = "collect" /\ chan # <<>>
  /\ records' = Append(records, Head(chan))
  /\ chan' = Tail(chan)
  /\ UNCHANGED <<text_vars, args, given, batch, pdf_files, main_pc, main_result, tx, rx, w_pc,
                 w_result,
                 stdout, summary>>
  /\ UNCHANGED parse_vars

(* Summary mode, after the channel closed: the summary is calculated and   *)
(* printed.                                                                 *)
Summarize ==
  /\ WriterRuns /\ w_pc = "collect" /\ chan = <<>> /\ ~tx
  /\ \E order \in IterationOrders(args.categories) :
       summary' = Some(calculate_summary(records, args.categories, order))
  /\ w_result' = Ok
  /\ w_pc' = "done"
  /\ rx' = FALSE
  /\ UNCHANGED <<text_vars, args, given, batch, pdf_files, main_pc, main_result, tx, chan,
                 stdout, records>>
  /\ UNCHANGED parse_vars

\* ---------------------------------------------------------------- inputs

JaneDoe == <<"J", "a", "n", "e", " ", "D", "o", "e">>
Domestic ==
  <<"D", "o", "m", "e", "s", "t", "i", "c", " ", "T", "r", "a", "n", "s", "a", "c", "t", "i",
    "o", "n", "s">>
International ==
  <<"I", "n", "t", "e", "r", "n", "a", "t", "i", "o", "n", "a", "l", " ", "T", "r", "a", "n",
    "s", "a", "c", "t", "i", "o", "n", "s">>

Date1 == <<"1", "9", "/", "1", "0", "/", "2", "0", "2", "5", "|", " ", "0", "0", ":", "5", "7">>
Date2 ==
  <<"2", "6", "/", "0", "9", "/", "2", "0", "2", "5", " ", "|", " ", "1", "3", ":", "3", "3">>

\* page_text is not called by main: its variables stay as they are here
TextIdle ==
  /\ page = None
  /\ text_pc = "done"
  /\ font_cache = None
  /\ ops = <<>>
  /\ next_op = 1
  /\ heap = <<>>
  /\ text_state = 0
  /\ yielded = <<>>
  /\ page_out = <<>>
  /\ text_result = Running

\* the state of main and the writer thread before main's loop, for the input given
PipelineStart(a, files, g) ==
  /\ args = a
  /\ given = g
  /\ batch = files
  /\ pdf_files = files
  /\ main_pc = "files"
  /\ main_result = Running
  /\ path = ""
  /\ pages = <<>>
  /\ texts = <<>>
  /\ i = 1
  /\ state = ParserStateNew
  /\ tx = TRUE
  /\ rx = TRUE
  /\ chan = <<>>
  /\ w_pc = "start"
  /\ w_result = Running
  /\ stdout = <<>>
  /\ records = <<>>
  /\ summary = None
  /\ opened = <<>>
  /\ emitted = <<>>
  /\ rules = <<>>
  /\ anchor = 0

\* the state every run starts in, but for the input: args and batch
Start(a, files, g) == PipelineStart(a, files, g) /\ TextIdle

Args(name, addheaders, summ, cats) ==
  [name |-> name, addheaders |-> addheaders, summary |-> summ, categories |-> cats]

\* page_text is called on its own: main is given no file
PipelineIdle == PipelineStart(Args(<<>>, FALSE, FALSE, None), <<>>, <<>>)

\* the paths of a batch, by position
Paths == <<"a.pdf", "b.pdf", "c.pdf", "d.pdf">>

\* ---------------------------------------------------------------- the pipeline

MaxFiles == 2

(* The rows of the k-th file of a batch carry k in their description, so   *)
(* that no two records of a batch are equal.                                *)
RowTexts(letter, k, amount) ==
  <<Date1, <<"S", "H", "O", "P", " ", letter, DigitChar(k)>>, <<DigitChar(k)>>, amount>>

OneRowPage(k) ==
  PageOfTexts(<<Domestic, PI>> \o RowTexts("A", k, <<"5", ".", "0", "0">>))

TwoRowPage(k) ==
  PageOfTexts(<<International, JaneDoe, JaneDoe>>
              \o RowTexts("B", k, <<"1", ",", "2", "3", "4", ".", "5", "0">>)
              \o <<<<"+">>>> \o RowTexts("C", k, <<"0", ".", "2", "5">>))

(* What the k-th file of a batch may be: a file that does not open, a file *)
(* of one page with one row, and a file whose first page does not load,    *)
(* whose second has one row and whose third has two.                        *)
FileChoices(k) ==
  { Document(Paths[k], FALSE, <<>>),
    Document(Paths[k], TRUE, <<OneRowPage(k)>>),
    Document(Paths[k], TRUE, <<Page("page", <<>>), OneRowPage(k), TwoRowPage(k)>>) }

Batches ==
  UNION { { fs \in [1..n -> UNION {FileChoices(k) : k \in 1..n}] :
              \A k \in 1..n : fs[k] \in FileChoices(k) } : n \in 0..MaxFiles }

(* The categories files of the runs: none, one whose two categories both   *)
(* have a pattern found in "SHOP A1", and one with a single category.       *)
CategoryChoices ==
  { None,
    Some([Shops |-> << <<"s", "h", "o", "p">> >>,
          Online |-> << <<"A", "M", "A", "Z", "O", "N">>, <<"S", "H", "O", "P", " ", "A">> >>]),
    Some([Travel |-> << <<"S", "H", "O", "P", " ", "B">> >>]) }

Init ==
  \E addheaders \in BOOLEAN, summ \in BOOLEAN, files \in Batches :
    \E cats \in (IF summ THEN CategoryChoices ELSE {None}) :
      Start(Args(JaneDoe, addheaders, summ, cats), files, <<>>)

Next ==
  \/ OpenFile \/ NextPage \/ Fragment \/ PageEnd \/ DropSender \/ Join
  \/ WriterStart \/ WriteRow \/ WriterFlush \/ Collect \/ Summarize

Spec == Init /\ [][Next]_vars

(* The two threads are scheduled: the writer thread takes a step of its    *)
(* loops when it can, and main returns from the join when it can.           *)
WriterLoop == WriterStart \/ WriteRow \/ WriterFlush \/ Collect

FairSpec == Spec /\ WF_vars(WriterLoop) /\ WF_vars(Join)

\* ---------------------------------------------------------------- one page

(* The parsing stage alone, the output stage holding the Receiver and not  *)
(* yet scheduled: a batch of one file of one page.                          *)
ParseNext == OpenFile \/ NextPage \/ Fragment \/ PageEnd \/ DropSender

OnePage(ts) == <<Document(Paths[1], TRUE, <<PageOfTexts(ts)>>)>>

StartPage(ts) == Start(Args(JaneDoe, FALSE, FALSE, None), OnePage(ts), <<>>)

\* the sequences over S of length at most n
SeqsUpTo(S, n) == UNION { [1..k -> S] : k \in 0..n }

\* parse has read the whole page and returned
PageDone == main_pc \in {"files", "join"} /\ opened # <<>>

\* the step reads the next text of the page
ReadsText == main_pc = "texts" /\ i <= Len(texts) /\ i' = i + 1

\* the transactions emitted so far
EmittedTxns == [k \in 1..Len(emitted) |-> emitted[k].t]

Shop == <<"S", "H", "O", "P">>
Plus == <<"+">>
Cr == <<"C", "r">>
Amt5 == <<"5", ".", "0", "0">>
MinusAmt5 == <<"-", "5", ".", "0", "0">>
PlusAmt5 == <<"+", "5", ".", "0", "0">>
Usd45 == <<"U", "S", "D", " ", "4", "5", ".", "0", "0">>
Transactions == <<"T", "R", "A", "N", "S", "A", "C", "T", "I", "O", "N", "S">>
Pts7 == <<"7">>

(* Rows: a page that opens a section and passes its header, followed by at *)
(* most MaxBody texts among a date, a free text, the symbols "+" and "Cr",  *)
(* an amount as the statement prints it, a foreign-currency amount, a      *)
(* section terminator and an integer.                                       *)
MaxBody == 4

RowVocab == {Date1, Shop, Plus, Cr, Amt5, Usd45, Transactions, Pts7}

InitRows == \E body \in SeqsUpTo(RowVocab, MaxBody) : StartPage(<<Domestic, PI>> \o body)

SpecRows == InitRows /\ [][ParseNext]_vars

\* the value an amount text prints, and the texts that are amounts
AmountCases ==
  { [text |-> Amt5, value |-> F32(FALSE, 5, 0)],
    [text |-> <<"1", ",", "2", "3", "4", ".", "5", "0">>, value |-> F32(FALSE, 12345, -1)],
    [text |-> <<"4", "5", ".", "0", "0">>, value |-> F32(FALSE, 45, 0)],
    [text |-> <<"0", ".", "1", "0">>, value |-> F32(FALSE, 1, -1)] }
AmountTexts == { c.text : c \in AmountCases }
Printed(text) == (CHOOSE c \in AmountCases : c.text = text).value

(* The machine is in a row: inside a section, past its header, the one-shot *)
(* skip spent, and a row started.                                           *)
InRow(st) == st.in_transactions /\ st.past_header /\ ~st.skip_next_non_date /\ st.in_row

(* C3.  Where is_credit is set in a row, a "+" of that row was read after   *)
(* the row's date and no amount since.  (exit_section leaves the flag as    *)
(* it is; start_new_transaction clears it before any row can use it.)       *)
CreditFlagFromThisRow ==
  state.in_row /\ state.is_credit =>
    \E j \in (anchor + 1)..(i - 1) :
      /\ texts[j] = Plus
      /\ \A k \in (j + 1)..(i - 1) : texts[k] \notin AmountTexts

(* C3: a "+" fragment read in a row sets the pending-credit flag; an amount *)
(* fragment read in a row is stored positive if the flag is set and        *)
(* negative if not, and leaves the flag clear; the flag is set only by a    *)
(* "+" of the row in progress with no amount after it, so that a "+" of one *)
(* row never makes an amount of a later row positive.                       *)
C3_PlusArmsCreditForNextAmount ==
  [][ReadsText =>
       /\ (InRow(state) /\ texts[i] = Plus => state'.is_credit)
       /\ (InRow(state) /\ texts[i] \in AmountTexts =>
             /\ state'.transaction.amount =
                  (IF state.is_credit THEN Printed(texts[i]) ELSE F32Neg(Printed(texts[i])))
             /\ F32IsPositive(state'.transaction.amount) = state.is_credit
             /\ ~state'.is_credit)
       /\ CreditFlagFromThisRow']_vars

(* C3, witness: a row in which "+", an amount and a second amount were     *)
(* read: the second amount is stored negative and the flag is clear.        *)
C3_Witness ==
  /\ main_pc = "texts"
  /\ texts = <<Domestic, PI, Date1, Plus, Amt5, Amt5>>
  /\ i = 7
  /\ F32IsNegative(state.transaction.amount)
  /\ ~state.is_credit

(* C4: every transaction emitted, and every record sent, has a non-empty   *)
(* description, and its row holds a free-text fragment; a row without one   *)
(* is never emitted, whichever of the three ends its row.                   *)
C4_EmittedHaveDescription ==
  /\ \A k \in 1..Len(emitted) :
       /\ emitted[k].t.description # <<>>
       /\ \E j \in 1..Len(emitted[k].how) : emitted[k].how[j] = "description"
  /\ \A k \in 1..Len(chan) : chan[k][2] # <<>>

(* C4, witness: a date fragment directly followed by a section terminator: *)
(* the page is read and nothing was emitted.                                *)
C4_Witness ==
  /\ PageDone
  /\ texts = <<Domestic, PI, Date1, Transactions>>
  /\ rules = <<"section_start", "past_header", "new_date", "section_end">>
  /\ emitted = <<>>
  /\ chan = <<>>

\* every foreign-currency fragment of an emitted row is in its description
EmittedHoldForeign ==
  \A k \in 1..Len(emitted) :
    \A j \in 1..Len(emitted[k].row) :
      is_foreign_currency(emitted[k].row[j]) =>
        Contains(emitted[k].t.description, emitted[k].row[j])

(* C5: a fragment that starts with a foreign-currency prefix, read in a    *)
(* row, is appended to the parts of the row's description and leaves the    *)
(* row's amount and has_amount as they were; an emitted row's description   *)
(* holds each such fragment of the row.                                     *)
C5_ForeignCurrencyIsDescription ==
  /\ []EmittedHoldForeign
  /\ [][ReadsText /\ InRow(state)
          /\ (\E prefix \in FOREIGN_CURRENCY_PREFIXES : StartsWith(texts[i], prefix)) =>
            /\ state'.desc_parts = Append(state.desc_parts, texts[i])
            /\ state'.transaction.amount = state.transaction.amount
            /\ state'.has_amount = state.has_amount]_vars

(* C5, witness: "USD 45.00" read after the row's amount: the amount is      *)
(* still the one assigned and the fragment is the last part.                *)
C5_Witness ==
  /\ main_pc = "texts"
  /\ texts = <<Domestic, PI, Date1, Shop, Amt5, Usd45>>
  /\ i = 7
  /\ state.has_amount
  /\ state.transaction.amount = F32(TRUE, 5, 0)
  /\ state.desc_parts = <<Shop, Usd45>>

(* Signed: as Rows, with amount texts that carry a sign of their own.       *)
SignedVocab == {Date1, Shop, Plus, Cr, Amt5, MinusAmt5, PlusAmt5}

InitSigned == \E body \in SeqsUpTo(SignedVocab, MaxBody) : StartPage(<<Domestic, PI>> \o body)

SpecSigned == InitSigned /\ [][ParseNext]_vars

\* the credit evidence of an emitted row e
AmountAt(e) == { j \in 1..Len(e.row) : e.how[j] = "amount" }
CrAt(e) == { j \in 1..Len(e.row) : e.row[j] = Cr }
HasPlusFragment(e) == \E j \in 1..Len(e.row) : e.row[j] = Plus
HasPlusInAmount(e) == \E j \in AmountAt(e) : Contains(e.row[j], <<"+">>)
HasMinusInAmount(e) == \E j \in AmountAt(e) : Contains(e.row[j], <<"-">>)

NoCreditEvidence(e) == ~HasPlusFragment(e) /\ ~HasPlusInAmount(e) /\ CrAt(e) = {}

OnlyTrailingCr(e) ==
  /\ ~HasPlusFragment(e) /\ ~HasPlusInAmount(e)
  /\ \E c \in CrAt(e) : \A a \in AmountAt(e) : a < c

(* C2: of every emitted row, the amount is not negative if the row's only  *)
(* credit evidence is a "Cr" fragment after its amount fragments, and not   *)
(* positive if the row has no credit evidence (no "+" fragment, no "Cr"     *)
(* fragment, no "+" in an amount text).                                     *)
C2_SignInvariant ==
  \A k \in 1..Len(emitted) :
    /\ OnlyTrailingCr(emitted[k]) => ~F32IsNegative(emitted[k].t.amount)
    /\ NoCreditEvidence(emitted[k]) => ~F32IsPositive(emitted[k].t.amount)

\* the date-time a date text spells, and the texts that are dates
DateS ==
  <<"0", "1", "/", "0", "2", "/", "2", "0", "2", "4", " ", "1", "0", ":", "0", "5", ":", "0",
    "9">>
DateOnly == <<"2", "9", "/", "0", "2", "/", "2", "0", "2", "4">>

DateCases ==
  { [text |-> Date1, value |-> DateTime(2025, 10, 19, 0, 57, 0)],
    [text |-> Date2, value |-> DateTime(2025, 9, 26, 13, 33, 0)],
    [text |-> DateS, value |-> DateTime(2024, 2, 1, 10, 5, 9)],
    [text |-> DateOnly, value |-> DateTime(2024, 2, 29, 0, 0, 0)] }
DateTexts == { c.text : c \in DateCases }
DateValue(text) == (CHOOSE c \in DateCases : c.text = text).value

(* Pages: a page of at most MaxTexts texts among a section-start label, the *)
(* header marker, two dates, a free text and a section terminator.          *)
MaxTexts == 5

PageVocab == {Domestic, PI, Date1, Date2, Shop, Transactions}

InitPages == \E ts \in SeqsUpTo(PageVocab, MaxTexts) : StartPage(ts)

SpecPages == InitPages /\ [][ParseNext]_vars

\* no two emitted records are of the same row
NoRowEmittedTwice ==
  \A j, k \in 1..Len(emitted) :
    j # k => <<emitted[j].path, emitted[j].from>> # <<emitted[k].path, emitted[k].from>>

(* C6: a date fragment read inside a section and past its header starts    *)
(* one new row (its date, empty description, no points, amount 0, no        *)
(* pending credit, no amount assigned) and emits at most one record, that  *)
(* of the row before; a date fragment read outside a section or in the     *)
(* header region starts no row and emits nothing; no row is emitted twice.  *)
C6_DateStartsOneRow ==
  /\ []NoRowEmittedTwice
  /\ [][ReadsText /\ texts[i] \in DateTexts =>
          IF state.in_transactions /\ state.past_header
          THEN /\ state'.transaction = Transaction(DateValue(texts[i]), <<>>, 0, F32Zero)
               /\ state'.in_row /\ ~state'.has_amount /\ ~state'.is_credit
               /\ state'.desc_parts = <<>>
               /\ anchor' = i
               /\ \/ emitted' = emitted
                  \/ /\ Len(emitted') = Len(emitted) + 1
                     /\ SubSeq(emitted', 1, Len(emitted)) = emitted
                     /\ emitted'[Len(emitted')].from = anchor
                     /\ state.in_row
          ELSE /\ state'.in_row = state.in_row
               /\ state'.transaction = state.transaction
               /\ state'.desc_parts = state.desc_parts
               /\ anchor' = anchor
               /\ emitted' = emitted]_vars

(* C6, witness: a second date read in a section: the row of the first date *)
(* was emitted once and the row in progress is that of the second date.     *)
C6_Witness ==
  /\ main_pc = "texts"
  /\ texts = <<Domestic, PI, Date1, Shop, Date2>>
  /\ i = 6
  /\ Len(emitted) = 1
  /\ emitted[1].t.date = DateTime(2025, 10, 19, 0, 57, 0)
  /\ state.in_row
  /\ state.transaction = Transaction(DateTime(2025, 9, 26, 13, 33, 0), <<>>, 0, F32Zero)

(* The scenario: a section-start label, the header marker, at most MaxPre  *)
(* texts that are not dates, a date, a free text, an integer, a decimal    *)
(* and a page number.                                                       *)
MaxPre == 2

AmazonRetail == <<"A", "M", "A", "Z", "O", "N", " ", "R", "E", "T", "A", "I", "L">>
Page1Of2 == <<"P", "a", "g", "e", " ", "1", " ", "o", "f", " ", "2">>

PointsCases ==
  { [text |-> <<"1", "2", "3">>, value |-> 123],
    [text |-> <<"7">>, value |-> 7] }
PointsTexts == { c.text : c \in PointsCases }
PointsValue(text) == (CHOOSE c \in PointsCases : c.text = text).value

PreVocab == {JaneDoe, PI, Shop, Amt5, Transactions, Domestic}

ScenarioPage(start, marker, pre, date, d, p, a) ==
  <<start, marker>> \o pre \o <<date, d, p, a, Page1Of2>>

InitScenario ==
  \E start \in SectionStartLabels, marker \in {JaneDoe, PI}, pre \in SeqsUpTo(PreVocab, MaxPre),
     date \in DateTexts, d \in {AmazonRetail, Shop}, p \in PointsTexts, a \in AmountTexts :
    StartPage(ScenarioPage(start, marker, pre, date, d, p, a))

SpecScenario == InitScenario /\ [][ParseNext]_vars

\* the parts of the scenario page that was read
ScenarioPre == SubSeq(texts, 3, Len(texts) - 5)
ScenarioDate == texts[Len(texts) - 4]
ScenarioD == texts[Len(texts) - 3]
ScenarioP == texts[Len(texts) - 2]
ScenarioA == texts[Len(texts) - 1]

\* the one transaction the scenario is said to yield
ScenarioExpected ==
  Transaction(DateValue(ScenarioDate), ScenarioD, PointsValue(ScenarioP),
              F32Neg(Printed(ScenarioA)))

\* none of the texts before the date is a section-start label or a section terminator
PreKeepsSection ==
  \A k \in 1..Len(ScenarioPre) :
    ScenarioPre[k] \notin SectionStartLabels /\ ~is_section_terminator(ScenarioPre[k])

(* C1, as stated: whatever non-date texts stand between the header marker  *)
(* and the date, the scenario page yields exactly the one transaction with *)
(* the parsed date, description D, points P and amount minus A.             *)
C1_AnyFragmentsBefore ==
  PageDone => EmittedTxns = <<ScenarioExpected>>

(* C1, amended: where none of the texts between the header marker and the  *)
(* date is a section-start label or a section terminator, the scenario     *)
(* page yields exactly the one transaction with the parsed date,           *)
(* description D, points P and amount minus the printed magnitude of A.     *)
C1_ScenarioOneTransaction ==
  PageDone /\ PreKeepsSection => EmittedTxns = <<ScenarioExpected>>

(* C1, witness: the page "Domestic Transactions", "Jane Doe", "PI",        *)
(* "Jane Doe", "19/10/2025| 00:57", "AMAZON RETAIL", "123", "1,234.50",     *)
(* "Page 1 of 2" was read and gave the one transaction of 2025-10-19       *)
(* 00:57:00, "AMAZON RETAIL", 123 points, -1234.50.                         *)
C1_Witness ==
  /\ PageDone
  /\ texts = ScenarioPage(Domestic, JaneDoe, <<PI, JaneDoe>>, Date1, AmazonRetail,
                          <<"1", "2", "3">>, <<"1", ",", "2", "3", "4", ".", "5", "0">>)
  /\ EmittedTxns = <<Transaction(DateTime(2025, 10, 19, 0, 57, 0), AmazonRetail, 123,
                                 F32(TRUE, 12345, -1))>>

(* Round trip: a list of at most MaxTxns transactions is rendered as the   *)
(* texts of one page, a section-start label and the header marker first,   *)
(* and the page is read back.                                               *)
MaxTxns == 2

\* a date-time as "dd/mm/yyyy HH:MM:SS", the third of DATE_FORMATS
RenderDate(dt) ==
  Pad(NatToDigits(dt.d), 2) \o <<"/">> \o Pad(NatToDigits(dt.mo), 2) \o <<"/">>
    \o Pad(NatToDigits(dt.y), 4) \o <<" ">> \o Pad(NatToDigits(dt.h), 2) \o <<":">>
    \o Pad(NatToDigits(dt.mi), 2) \o <<":">> \o Pad(NatToDigits(dt.s), 2)

\* the magnitude of an amount of at most two decimals, printed with two decimals
RenderMagnitude(a) ==
  LET cents == a.c * Pow10(a.x + 2)
  IN  NatToDigits(cents \div 100) \o <<".">> \o Pad(NatToDigits(cents % 100), 2)

\* the texts of one transaction: date, description, points, ["+",] amount
RenderRow(t) ==
  <<RenderDate(t.date), t.description, I32ToString(t.points)>>
    \o (IF F32IsPositive(t.amount) THEN <<Plus>> ELSE <<>>)
    \o <<RenderMagnitude(t.amount)>>

RECURSIVE RenderRows(_)
RenderRows(ts) == IF ts = <<>> THEN <<>> ELSE RenderRow(Head(ts)) \o RenderRows(Tail(ts))

RenderPage(ts) == <<Domestic, PI>> \o RenderRows(ts)

GivenTransactions ==
  { Transaction(date, d, p, a) :
      date \in {DateTime(2025, 10, 19, 0, 57, 0), DateTime(2024, 2, 29, 23, 5, 9)},
      d \in {Shop, AmazonRetail, Usd45},
      p \in {0, 123},
      a \in {F32(TRUE, 12345, -1), F32(FALSE, 5, 0)} }

InitRoundTrip ==
  \E ts \in SeqsUpTo(GivenTransactions, MaxTxns) :
    Start(Args(JaneDoe, FALSE, FALSE, None), OnePage(RenderPage(ts)), ts)

SpecRoundTrip == InitRoundTrip /\ [][ParseNext]_vars

\* no description of the given list begins with a foreign-currency code
GivenFreeText == \A k \in 1..Len(given) : ~is_foreign_currency(given[k].description)

\* the round trip of the lists whose descriptions are free text
RoundTripFreeText == PageDone /\ GivenFreeText => EmittedTxns = given

(* C7: the page rendered from a list of transactions with non-empty        *)
(* descriptions, read back, gives the same list in the same order, with    *)
(* the same date, description, points and amount.                           *)
C7_RoundTrip ==
  PageDone => EmittedTxns = given

\* ---------------------------------------------------------------- the two stages

\* the records the parsing stage has emitted, in the order of emission
EmittedRecords == [k \in 1..Len(emitted) |-> emit(emitted[k].t)]

(* The records the output stage has taken: the rows written after the      *)
(* header in CSV mode, the records collected in summary mode.               *)
Taken ==
  IF args.summary THEN records
  ELSE IF args.addheaders THEN (IF stdout = <<>> THEN <<>> ELSE Tail(stdout))
  ELSE stdout

IsPrefix(a, b) == Len(a) <= Len(b) /\ SubSeq(b, 1, Len(a)) = a

(* The descriptions of the rows of a batch whose files all open: files in  *)
(* the order of the batch, pages in the order of the file, rows in the     *)
(* order of the page.                                                       *)
RECURSIVE RowsOfBatch(_, _)
RowsOfBatch(files, k) ==
  IF k > Len(files) THEN <<>>
  ELSE (IF Len(files[k].pages) = 1
        THEN <<<<"S", "H", "O", "P", " ", "A", DigitChar(k)>>>>
        ELSE << <<"S", "H", "O", "P", " ", "A", DigitChar(k)>>,
                <<"S", "H", "O", "P", " ", "B", DigitChar(k)>>,
                <<"S", "H", "O", "P", " ", "C", DigitChar(k)>> >>)
       \o RowsOfBatch(files, k + 1)

Descriptions(recs) == [k \in 1..Len(recs) |-> recs[k][2]]

(* C8: the output stage takes the records in the order of emission: what   *)
(* it has taken followed by what is in the channel is what was emitted, as *)
(* long as the Receiver exists, and always a prefix of it; in a run that   *)
(* ends with Ok what it has taken is the emitted sequence, each record     *)
(* once, and that is the rows of the batch by file, page and row.           *)
C8_WrittenEqualsEmitted ==
  /\ rx => Taken \o chan = EmittedRecords
  /\ IsPrefix(Taken, EmittedRecords)
  /\ main_result = Ok =>
       /\ Taken = EmittedRecords
       /\ Descriptions(Taken) = RowsOfBatch(batch, 1)

(* C8, witness: a run of two files, of three pages and of one, ended with  *)
(* Ok in CSV mode with the four rows written in the order of the batch.     *)
C8_Witness ==
  /\ main_result = Ok /\ ~args.summary /\ args.addheaders
  /\ Len(batch) = 2 /\ Len(batch[1].pages) = 3 /\ Len(batch[2].pages) = 1
  /\ Len(stdout) = 5
  /\ Tail(stdout) = EmittedRecords

(* C9: once the output stage has failed the run never ends with Ok: the    *)
(* Receiver is gone, so that a later send fails; main is never held at the *)
(* join; and when main has returned it has returned an error, which is the *)
(* error of the output stage or that of the send that failed.               *)
C9_WriterFailureEndsInError ==
  IsErr(w_result) =>
    /\ main_result # Ok
    /\ w_pc = "done" /\ ~rx
    /\ main_pc = "join" => ENABLED Join
    /\ main_pc = "done" =>
         \/ main_result = w_result
         \/ main_result = Err(Context(SendError, <<"Failed to parse statement">>))
         \/ \E k \in 1..Len(batch) :
              main_result =
                Err(Context(OpenError(batch[k].path), <<"Failed to parse statement">>))

(* C9, witness: a row failed to be written while the parsing stage had     *)
(* records still to send; the next send failed and main ended with that    *)
(* error.                                                                   *)
C9_Witness ==
  /\ w_result = Err(RowError)
  /\ main_pc = "done"
  /\ main_result = Err(Context(SendError, <<"Failed to parse statement">>))

\* the k-th file of the batch was tried and did not open
FailedToOpen(k) == k \in 1..Len(opened) /\ ~batch[k].opens

(* C10: where a file did not open, main has ended with an error whose      *)
(* chain names the path of that file; no file after it was tried, the rest *)
(* of the batch is as it was, and no record was emitted from that file.     *)
C10_OpenFailureAborts ==
  \A k \in 1..Len(batch) :
    FailedToOpen(k) =>
      /\ main_pc = "done" /\ IsErr(main_result)
      /\ \E j \in 1..Len(main_result[2]) :
           main_result[2][j] = <<"failed to open file", batch[k].path>>
      /\ opened = [j \in 1..k |-> batch[j].path]
      /\ pdf_files = SubSeq(batch, k + 1, Len(batch))
      /\ \A j \in 1..Len(emitted) : emitted[j].path # batch[k].path

(* C10, witness: the second file of two did not open after the first gave  *)
(* its record; main ended with the error for "b.pdf".                       *)
C10_Witness ==
  /\ Len(batch) = 2 /\ batch[1].opens /\ FailedToOpen(2)
  /\ main_pc = "done"
  /\ main_result =
       Err(Context(OpenError("b.pdf"), <<"Failed to parse statement">>))
  /\ Len(emitted) = 1 /\ emitted[1].path = "a.pdf"

\* ---------------------------------------------------------------- one document

(* Documents: one file that opens, of at most MaxPages pages.  The p-th    *)
(* page is one that fails at one of the three steps of loading, a page of  *)
(* one row, that page with an operator that gives no text put before each *)
(* of its texts, a page that ends in a row without amount, a page without  *)
(* section-start label, or a page whose label comes after other texts.     *)
MaxPages == 2

\* the operators that give no text: not a text draw, bad bytes, blank, empty
JunkOps == {OtherOp, BadTextDraw, TextDraw(<<" ", " ">>), TextDraw(<<>>)}

ShopOf(letter, p) == <<"S", "H", "O", "P", " ", letter, DigitChar(p)>>

RowPageTexts(p) == <<Domestic, PI>> \o RowTexts("A", p, Amt5)

\* the text with blanks around it, as the bytes of a text draw may have
Padded(text) == <<" ">> \o text \o <<" ", " ">>

RECURSIVE NoisyOps(_, _)
NoisyOps(junk, ts) ==
  IF ts = <<>> THEN <<junk>>
  ELSE <<junk, TextDraw(Padded(Head(ts)))>> \o NoisyOps(junk, Tail(ts))

NoisyRowPage(junk, p) == Page("ok", NoisyOps(junk, RowPageTexts(p)))

OpenRowPage(p) == PageOfTexts(<<Domestic, PI, Date1, ShopOf("D", p)>>)

NoSectionPage(p) ==
  PageOfTexts(<<ShopOf("E", p), Amt5>> \o RowTexts("F", p, Amt5))

LateSectionPage(p) ==
  PageOfTexts(<<Amt5, ShopOf("G", p), <<"9">>, Domestic, PI>> \o RowTexts("H", p, Amt5))

PageChoices(p) ==
  { Page("page", <<>>), Page("contents", <<>>), Page("ops", <<>>),
    OneRowPage(p), OpenRowPage(p), NoSectionPage(p), LateSectionPage(p) }
    \cup { NoisyRowPage(junk, p) : junk \in JunkOps }

DocPages ==
  UNION { { pgs \in [1..n -> UNION {PageChoices(p) : p \in 1..n}] :
              \A p \in 1..n : pgs[p] \in PageChoices(p) } : n \in 0..MaxPages }

InitDocs ==
  \E pgs \in DocPages :
    Start(Args(JaneDoe, FALSE, FALSE, None), <<Document(Paths[1], TRUE, pgs)>>, <<>>)

SpecDocs == InitDocs /\ [][ParseNext]_vars

\* the pages of the file being parsed, and how many of them parse has taken
DocOpened == opened # <<>> /\ batch[Len(opened)].opens
PagesOfDoc == batch[Len(opened)].pages
PagesTaken == Len(PagesOfDoc) - Len(pages)

(* C11: once parse has taken a page whose content stream gives no          *)
(* operators, the document is given up: main has ended with an error and   *)
(* no page after that one was taken.                                        *)
C11_OpsFailureIsFatal ==
  DocOpened =>
    \A p \in 1..PagesTaken :
      PagesOfDoc[p].load = "ops" =>
        main_pc = "done" /\ IsErr(main_result) /\ PagesTaken = p

\* the step takes the next page of the document
TakesPage == main_pc = "pages" /\ pages # <<>> /\ pages' = Tail(pages)

\* parse has taken every page of the document and returned
DocDone == DocOpened /\ main_pc \in {"files", "join"}

(* The descriptions of the records of the p-th page, by what the page was  *)
(* made of.                                                                 *)
RowsOfPage(pg, p) ==
  IF pg = OneRowPage(p) \/ pg \in { NoisyRowPage(junk, p) : junk \in JunkOps }
  THEN <<ShopOf("A", p)>>
  ELSE IF pg = OpenRowPage(p) THEN <<ShopOf("D", p)>>
  ELSE IF pg = LateSectionPage(p) THEN <<ShopOf("H", p)>>
  ELSE <<>>

RECURSIVE RowsOfPages(_, _)
RowsOfPages(pgs, p) ==
  IF p > Len(pgs) THEN <<>> ELSE RowsOfPage(pgs[p], p) \o RowsOfPages(pgs, p + 1)

EmittedDescriptions == [k \in 1..Len(emitted) |-> emitted[k].t.description]

NoOpsFailure == \A p \in 1..Len(PagesOfDoc) : PagesOfDoc[p].load # "ops"

(* C12: a page object that does not load is passed over: the step emits    *)
(* nothing, gives no error and leaves parse at the next page; every page   *)
(* of the document is taken.  The texts of a page are those of its text    *)
(* draws whose bytes are text and not blank, trimmed, in their order.  At  *)
(* the end the records are those of the rows of the pages that loaded, in  *)
(* order, and none else.                                                    *)
C12_LocalFailuresAreSkipped ==
  /\ [](DocDone => PagesTaken = Len(PagesOfDoc))
  /\ [](DocDone /\ NoOpsFailure => EmittedDescriptions = RowsOfPages(PagesOfDoc, 1))
  /\ [][TakesPage /\ Head(pages).load = "page" =>
          /\ main_pc' = "pages" /\ main_result' = main_result
          /\ emitted' = emitted /\ chan' = chan]_vars
  /\ [][TakesPage =>
          \A junk \in JunkOps :
            Head(pages) = NoisyRowPage(junk, PagesTaken + 1) =>
              main_pc' = "texts" /\ i' = 1 /\ texts' = RowPageTexts(PagesTaken + 1)]_vars

(* C12, witness: a document whose first page did not load and whose second *)
(* page has bad bytes before each text; parse has returned and the one row *)
(* of the second page is the one record.                                    *)
C12_Witness ==
  /\ DocDone
  /\ PagesOfDoc = <<Page("page", <<>>), NoisyRowPage(BadTextDraw, 2)>>
  /\ texts = RowPageTexts(2)
  /\ Len(emitted) = 1
  /\ emitted[1].t = Transaction(DateTime(2025, 10, 19, 0, 57, 0), ShopOf("A", 2), 2,
                                F32(TRUE, 5, 0))

\* ---------------------------------------------------------------- termination

(* The queue is drained and the output stage is at its end: returned, or   *)
(* in summary mode with all records collected, the summary left to print.  *)
Drained ==
  /\ chan = <<>>
  /\ w_pc = "done" \/ (args.summary /\ w_pc = "collect" /\ Len(records) = Len(emitted))

TransactionsOfPage(pg, p) ==
  IF pg = OneRowPage(p) \/ pg \in { NoisyRowPage(junk, p) : junk \in JunkOps }
  THEN <<Transaction(DateValue(Date1), ShopOf("A", p), p, F32(TRUE, 5, 0))>>
  ELSE IF pg = OpenRowPage(p)
  THEN <<Transaction(DateValue(Date1), ShopOf("D", p), 0, F32Zero)>>
  ELSE IF pg = LateSectionPage(p)
  THEN <<Transaction(DateValue(Date1), ShopOf("H", p), p, F32(TRUE, 5, 0))>>
  ELSE <<>>

RECURSIVE TransactionsOfPages(_, _)
TransactionsOfPages(pgs, p) ==
  IF p > Len(pgs) THEN <<>>
  ELSE TransactionsOfPage(pgs[p], p) \o TransactionsOfPages(pgs, p + 1)

\* the records emitted by the step
NewlyEmitted == SubSeq(emitted', Len(emitted) + 1, Len(emitted'))

(* C14: a page that loads is read from the new state; the step at the end  *)
(* of a page emits the row in progress, if it has a description; a record  *)
(* once emitted is not changed by any later step; a record is emitted only *)
(* for a row whose date comes after a section-start label of the page      *)
(* being read; and at the end the records are those of the rows of each    *)
(* page, with the values that page gives them.                              *)
C14_NoStateAcrossPages ==
  /\ [][TakesPage /\ Head(pages).load = "ok" => state' = ParserStateNew]_vars
  /\ [][main_pc = "texts" /\ i > Len(texts) /\ main_pc' = "pages" =>
          IF state.in_row /\ state.transaction.description # <<>>
          THEN /\ Len(emitted') = Len(emitted) + 1
               /\ emitted'[Len(emitted')].t.date = state.transaction.date
               /\ emitted'[Len(emitted')].t.points = state.transaction.points
               /\ emitted'[Len(emitted')].t.amount = state.transaction.amount
          ELSE emitted' = emitted]_vars
  /\ [][SubSeq(emitted', 1, Len(emitted)) = emitted]_vars
  /\ [][\A k \in 1..Len(NewlyEmitted) :
          /\ NewlyEmitted[k].from \in 1..Len(texts)
          /\ \E j \in 1..(NewlyEmitted[k].from - 1) : texts[j] \in SectionStartLabels]_vars
  /\ [](DocDone /\ NoOpsFailure => EmittedTxns = TransactionsOfPages(PagesOfDoc, 1))

(* C14, witness: a first page that ends in a row without amount, a second  *)
(* page that has an amount, a text and a number before its section-start   *)
(* label: the row of the first page was emitted with amount 0 and no       *)
(* points, the row of the second page after it.                             *)
C14_Witness ==
  /\ DocDone
  /\ PagesOfDoc = <<OpenRowPage(1), LateSectionPage(2)>>
  /\ EmittedTxns =
       << Transaction(DateTime(2025, 10, 19, 0, 57, 0), ShopOf("D", 1), 0, F32Zero),
          Transaction(DateTime(2025, 10, 19, 0, 57, 0), ShopOf("H", 2), 2, F32(TRUE, 5, 0)) >>

\* ---------------------------------------------------------------- the same run again

(* The figures of a summary that no order of the categories can change.     *)
Figures(sm) ==
  [total_spent |-> sm.total_spent, bill_payment |-> sm.bill_payment,
   total_points |-> sm.total_points, transaction_count |-> sm.transaction_count]

(* The CSV rows and the plain figures of a run that ended with Ok are those *)
(* of the batch and of the records, whatever the order of the categories.   *)
SameRecordsEveryRun ==
  main_result = Ok =>
    /\ Taken = EmittedRecords
    /\ Descriptions(Taken) = RowsOfBatch(batch, 1)
    /\ summary # None =>
         \A order \in IterationOrders(args.categories) :
           Figures(summary[1]) =
             Figures(calculate_summary(EmittedRecords, args.categories, order))

(* C15: another run of the same batch with the same arguments gives the     *)
(* same output.  The runs of one batch differ in the interleaving of the    *)
(* two threads and in the order in which the HashMap of the categories is   *)
(* iterated; so: in a run that ended with Ok the records taken are the      *)
(* emitted ones, the rows of the batch in order, and the summary printed    *)
(* is the summary of those records under every order of the categories.     *)
C15_SameOutputEveryRun ==
  main_result = Ok =>
    /\ Taken = EmittedRecords
    /\ Descriptions(Taken) = RowsOfBatch(batch, 1)
    /\ summary # None =>
         \A order \in IterationOrders(args.categories) :
           summary = Some(calculate_summary(EmittedRecords, args.categories, order))

\* ---------------------------------------------------------------- pdf_tools: decoding

(* In pdf_tools a text is the sequence of the code points of its chars and  *)
(* data is a sequence of bytes.                                              *)
RECURSIVE Flatten(_)
Flatten(ss) == IF ss = <<>> THEN <<>> ELSE Head(ss) \o Flatten(Tail(ss))

\* enum Decoder
DecoderMap(map) == <<"Map", map>>
DecoderCmap(cmap) == <<"Cmap", cmap>>
DecoderNone == <<"None">>

\* struct FontInfo, and FontInfo::default()
FontInfo(decoder) == [decoder |-> decoder]
FontInfoDefault == FontInfo(DecoderNone)

\* ToUnicodeMap::get: the string of the code, if the map has the code
CmapGet(cmap, cp) == IF cp \in DOMAIN cmap THEN Some(cmap[cp]) ELSE None

(* DifferenceForwardMap::new(base, differences), and its get: the string of *)
(* the byte in the differences, else in the base table if there is one.     *)
DifferenceForwardMap(base, differences) == [base |-> base, differences |-> differences]

MapGet(map, b) ==
  IF b \in DOMAIN map.differences THEN Some(map.differences[b])
  ELSE IF map.base # None /\ b \in DOMAIN map.base[1] THEN Some(map.base[1][b])
  ELSE None

\* what decode did: Ok(()), Err(PdfError::Utf16Decode) or a panic, and what it pushed to out
Decoded(result, text) == [result |-> result, text |-> text]

\* data.starts_with(&[0xfe, 0xff])
StartsWithBom(data) == Len(data) >= 2 /\ data[1] = 254 /\ data[2] = 255

\* u16::from_be_bytes
FromBeBytes(hi, lo) == hi * 256 + lo

\* data.windows(2): every pair of adjacent bytes, from every position
Windows2(data) ==
  IF Len(data) < 2 THEN <<>>
  ELSE [k \in 1..(Len(data) - 1) |-> FromBeBytes(data[k], data[k + 1])]

\* filter_map and extend / push_str: the strings that were found, in order
Mapped(found) ==
  Flatten([k \in 1..Len(found) |-> IF found[k] = None THEN <<>> ELSE found[k][1]])

IsHighSurrogate(u) == u >= 55296 /\ u <= 56319
IsLowSurrogate(u) == u >= 56320 /\ u <= 57343

\* decode_utf16, were an unpaired surrogate replaced by U+FFFD and not an error
RECURSIVE decode_utf16_lossy(_, _, _)
decode_utf16_lossy(units, k, acc) ==
  IF k > Len(units) THEN [failed |-> 0, text |-> acc]
  ELSE IF ~IsHighSurrogate(units[k]) /\ ~IsLowSurrogate(units[k])
  THEN decode_utf16_lossy(units, k + 1, Append(acc, units[k]))
  ELSE IF IsHighSurrogate(units[k]) /\ k < Len(units) /\ IsLowSurrogate(units[k + 1])
  THEN decode_utf16_lossy(units, k + 2,
                          Append(acc, 65536 + (units[k] - 55296) * 1024
                                        + (units[k + 1] - 56320)))
  ELSE decode_utf16_lossy(units, k + 1, Append(acc, 65533))

(* char::decode_utf16 under try_for_each: the chars up to the first         *)
(* unpaired surrogate, at the index of the unit that failed (0: none did).  *)
RECURSIVE decode_utf16(_, _, _)
decode_utf16(units, k, acc) ==
  IF k > Len(units) THEN [failed |-> 0, text |-> acc]
  ELSE IF ~IsHighSurrogate(units[k]) /\ ~IsLowSurrogate(units[k])
  THEN decode_utf16(units, k + 1, Append(acc, units[k]))
  ELSE IF IsHighSurrogate(units[k]) /\ k < Len(units) /\ IsLowSurrogate(units[k + 1])
  THEN decode_utf16(units, k + 2,
                    Append(acc, 65536 + (units[k] - 55296) * 1024 + (units[k + 1] - 56320)))
  ELSE [failed |-> k, text |-> acc]

(* pdf::font::utf16be_to_char(data) under try_for_each.  The units are the  *)
(* 2-byte chunks of data.  For data of odd length the last chunk has one    *)
(* byte: the units are made by the pdf crate, which is not part of these    *)
(* sources, either from the whole chunks only or by indexing both bytes of  *)
(* every chunk, which panics when the last chunk is reached.  Both are      *)
(* outcomes.                                                                *)
utf16be_to_char(data) ==
  LET units == [k \in 1..(Len(data) \div 2) |-> FromBeBytes(data[2 * k - 1], data[2 * k])]
      d == decode_utf16(units, 1, <<>>)
      whole == Decoded(IF d.failed = 0 THEN "Ok" ELSE "Err", d.text)
      indexed ==
        IF d.failed # 0 /\ ~(d.failed = Len(units) /\ IsHighSurrogate(units[d.failed]))
        THEN whole
        ELSE Decoded("Panic", d.text)
  IN  IF Len(data) % 2 = 0 THEN {whole} ELSE {whole, indexed}

IsContinuation(b) == b >= 128 /\ b <= 191

\* std::str::from_utf8: the chars of data, or failed at the first byte that is not UTF-8
RECURSIVE from_utf8(_, _, _)
from_utf8(data, k, acc) ==
  IF k > Len(data) THEN [failed |-> 0, text |-> acc]
  ELSE LET b == data[k]
           n == Len(data) - k
           c(j) == data[k + j]
       IN  IF b < 128 THEN from_utf8(data, k + 1, Append(acc, b))
           ELSE IF b >= 194 /\ b <= 223 /\ n >= 1 /\ IsContinuation(c(1))
           THEN from_utf8(data, k + 2, Append(acc, (b - 192) * 64 + (c(1) - 128)))
           ELSE IF /\ b >= 224 /\ b <= 239 /\ n >= 2
                   /\ IsContinuation(c(1)) /\ IsContinuation(c(2))
                   /\ (b = 224 => c(1) >= 160) /\ (b = 237 => c(1) <= 159)
           THEN from_utf8(data, k + 3,
                          Append(acc, (b - 224) * 4096 + (c(1) - 128) * 64 + (c(2) - 128)))
           ELSE IF /\ b >= 240 /\ b <= 244 /\ n >= 3
                   /\ IsContinuation(c(1)) /\ IsContinuation(c(2)) /\ IsContinuation(c(3))
                   /\ (b = 240 => c(1) >= 144) /\ (b = 244 => c(1) <= 143)
           THEN from_utf8(data, k + 4,
                          Append(acc, (b - 240) * 262144 + (c(1) - 128) * 4096
                                        + (c(2) - 128) * 64 + (c(3) - 128)))
           ELSE [failed |-> k, text |-> <<>>]

(* FontInfo::decode(data, out): the outcomes, each with what is pushed to   *)
(* out.  With a character map, data that starts with FE FF is read through  *)
(* windows(2), the window of the mark itself included.                      *)
decode(font, data) ==
  LET decoder == font.decoder
      cmap_get(codes) == [k \in 1..Len(codes) |-> CmapGet(decoder[2], codes[k])]
      map_get(bytes) == [k \in 1..Len(bytes) |-> MapGet(decoder[2], bytes[k])]
  IN  CASE decoder[1] = "Cmap" ->
             IF StartsWithBom(data)
             THEN {Decoded("Ok", Mapped(cmap_get(Windows2(data))))}
             ELSE {Decoded("Ok", Mapped(cmap_get(data)))}
        [] decoder[1] = "Map" -> {Decoded("Ok", Mapped(map_get(data)))}
        [] decoder[1] = "None" ->
             IF StartsWithBom(data)
             THEN utf16be_to_char(SubSeq(data, 3, Len(data)))
             ELSE LET text == from_utf8(data, 1, <<>>)
                  IN  IF text.failed = 0 THEN {Decoded("Ok", text.text)}
                      ELSE {Decoded("Err", <<>>)}

\* ---------------------------------------------------------------- pdf_tools: fonts

(* A font object: its name if it has one, its ToUnicode stream if it has    *)
(* one (Some of what parsing it gives: the map, or an error), its encoding  *)
(* if it has one (base and differences).                                    *)
Font(name, to_unicode, encoding) ==
  [name |-> name, to_unicode |-> to_unicode, encoding |-> encoding]

Encoding(base, differences) == [base |-> base, differences |-> differences]

\* what resolve.get gives for a reference, and what parsing a ToUnicode stream gives
Resolved(v) == <<"Ok", v>>
Unresolved == <<"Err">>

(* pdf_encoding::STANDARD, SYMBOL, WINANSI, MACROMAN, for the bytes of the  *)
(* model: "A" and "B", and FE and FF where the table has them.               *)
BaseTable(base) ==
  CASE base = "StandardEncoding" -> (65 :> <<65>>) @@ (66 :> <<66>>)
    [] base = "SymbolEncoding" -> (65 :> <<913>>) @@ (66 :> <<914>>)
    [] base = "WinAnsiEncoding" ->
         (65 :> <<65>>) @@ (66 :> <<66>>) @@ (254 :> <<254>>) @@ (255 :> <<255>>)
    [] base = "MacRomanEncoding" ->
         (65 :> <<65>>) @@ (66 :> <<66>>) @@ (254 :> <<731>>) @@ (255 :> <<711>>)

\* the fonts of a cache while it is populated; panic: to_unicode.unwrap() has failed
Fonts(panic, fonts) == [panic |-> panic, fonts |-> fonts]

\* FontCache::add_font; the fonts are left as they are where the code returns early
add_font(fonts, name, font) ==
  IF font.to_unicode # None
  THEN IF font.to_unicode[1][1] = "Err" THEN Fonts(TRUE, fonts)
       ELSE Fonts(FALSE, (name :> FontInfo(DecoderCmap(font.to_unicode[1][2]))) @@ fonts)
  ELSE IF font.encoding # None
  THEN LET encoding == font.encoding[1]
       IN  IF encoding.base \in {"StandardEncoding", "SymbolEncoding", "WinAnsiEncoding",
                                 "MacRomanEncoding"}
           THEN Fonts(FALSE,
                      (name :> FontInfo(DecoderMap(
                         DifferenceForwardMap(Some(BaseTable(encoding.base)),
                                              encoding.differences)))) @@ fonts)
           ELSE IF encoding.base = "None"
           THEN Fonts(FALSE,
                      (name :> FontInfo(DecoderMap(
                         DifferenceForwardMap(None, encoding.differences)))) @@ fonts)
           ELSE Fonts(FALSE, fonts)
  ELSE Fonts(FALSE, fonts)

(* FontCache::populate, the first loop: the fonts of the resources in the   *)
(* order the HashMap gives them, each one that has a reference that         *)
(* resolves added under its resource name.                                  *)
RECURSIVE populate_fonts(_, _, _)
populate_fonts(f, resources, order) ==
  IF order = <<>> \/ f.panic THEN f
  ELSE LET font == resources.fonts[Head(order)]
       IN  populate_fonts(IF font # None /\ font[1][1] = "Ok"
                          THEN add_font(f.fonts, Head(order), font[1][2])
                          ELSE f,
                          resources, Tail(order))

(* FontCache::populate, the second loop: the fonts of the graphics states   *)
(* that have one, each one that resolves and has a name added under its own *)
(* name.                                                                    *)
RECURSIVE populate_graphics_states(_, _, _)
populate_graphics_states(f, resources, order) ==
  IF order = <<>> \/ f.panic THEN f
  ELSE LET gs == resources.graphics_states[Head(order)]
       IN  populate_graphics_states(
             IF gs.font # None /\ gs.font[1][1][1] = "Ok" /\ gs.font[1][1][2].name # None
             THEN add_font(f.fonts, gs.font[1][1][2].name[1], gs.font[1][1][2])
             ELSE f,
             resources, Tail(order))

\* the orders in which a HashMap with these keys can be iterated
KeyOrders(keys) ==
  { o \in [1..Cardinality(keys) -> keys] :
      \A j, k \in 1..Cardinality(keys) : j # k => o[j] # o[k] }

\* FontCache::populate
populate(pg, font_order, gs_order) ==
  IF pg.resources = None THEN Fonts(FALSE, <<>>)
  ELSE populate_graphics_states(populate_fonts(Fonts(FALSE, <<>>), pg.resources[1], font_order),
                                pg.resources[1], gs_order)

\* FontCache::new(page, resolve), once populate has returned
FontCache(fonts) == [fonts |-> fonts, default_font |-> FontInfoDefault]

get_by_font_name(cache, name) ==
  IF name \in DOMAIN cache.fonts THEN cache.fonts[name] ELSE cache.default_font

\* get_by_graphic_state_name, were the font looked up under the name of the graphics state
get_by_graphic_state_name_of_state(cache, pg, name) ==
  IF pg.resources = None THEN None
  ELSE IF name \notin DOMAIN pg.resources[1].graphics_states THEN None
  ELSE LET gs == pg.resources[1].graphics_states[name]
       IN  IF gs.font = None THEN None
           ELSE Some(<<get_by_font_name(cache, name), gs.font[1][2]>>)

(* get_by_graphic_state_name: of the graphics state of the name, the font   *)
(* registered under the name of its font object, or the default font, and   *)
(* its size; None without resources, state or font in the state.             *)
get_by_graphic_state_name(cache, pg, name) ==
  IF pg.resources = None THEN None
  ELSE IF name \notin DOMAIN pg.resources[1].graphics_states THEN None
  ELSE LET gs == pg.resources[1].graphics_states[name]
       IN  IF gs.font = None THEN None
           ELSE LET font == gs.font[1][1]
                    font_size == gs.font[1][2]
                IN  Some(<<IF font[1] = "Ok" /\ font[2].name # None
                           THEN get_by_font_name(cache, font[2].name[1])
                           ELSE cache.default_font,
                           font_size>>)

\* ---------------------------------------------------------------- pdf_tools: text state

(* Transform2D: m11 m12 / m21 m22 / m31 m32.  Numbers that are f32 in the   *)
(* code are small integers here, which f32 holds exactly.                    *)
Transform2D(m11, m12, m21, m22, m31, m32) ==
  [m11 |-> m11, m12 |-> m12, m21 |-> m21, m22 |-> m22, m31 |-> m31, m32 |-> m32]

Identity == Transform2D(1, 0, 0, 1, 0, 0)

Point(x, y) == [x |-> x, y |-> y]

\* Transform2D::then_translate in the place of pre_translate: m, then the translation by v
then_translate(m, v) == [m EXCEPT !.m31 = m.m31 + v.x, !.m32 = m.m32 + v.y]

\* Transform2D::pre_translate: the translation by v, then m
pre_translate(m, v) ==
  [m EXCEPT !.m31 = v.x * m.m11 + v.y * m.m21 + m.m31,
            !.m32 = v.x * m.m12 + v.y * m.m22 + m.m32]

\* Matrix { a, b, c, d, e, f }, and matrix.into()
Matrix(a, b, c, d, e, f) == [a |-> a, b |-> b, c |-> c, d |-> d, e |-> e, f |-> f]

MatrixInto(matrix) ==
  Transform2D(matrix.a, matrix.b, matrix.c, matrix.d, matrix.e, matrix.f)

TextState(font, font_size, text_leading, text_matrix) ==
  [font |-> font, font_size |-> font_size, text_leading |-> text_leading,
   text_matrix |-> text_matrix]

\* TextState::default()
TextStateDefault == TextState(FontInfoDefault, 0, 0, Identity)

\* enum Op, the operators the two functions match, and one of the others
BeginText == [op |-> "BeginText"]
GraphicsState(name) == [op |-> "GraphicsState", name |-> name]
TextFont(name, size) == [op |-> "TextFont", name |-> name, size |-> size]
Leading(leading) == [op |-> "Leading", leading |-> leading]
TextNewline == [op |-> "TextNewline"]
MoveTextPosition(translation) == [op |-> "MoveTextPosition", translation |-> translation]
SetTextMatrix(matrix) == [op |-> "SetTextMatrix", matrix |-> matrix]
TextDrawData(data) == [op |-> "TextDraw", text |-> [data |-> data]]
TextDrawAdjusted(array) == [op |-> "TextDrawAdjusted", array |-> array]
EndText == [op |-> "EndText"]

\* enum TextDrawAdjusted
AdjustedText(data) == <<"Text", [data |-> data]>>
AdjustedSpacing(n) == <<"Spacing", n>>

\* the state of the scan: the TextStates allocated so far and the one state points to
Scan(hp, st) == [heap |-> hp, state |-> st]

\* update_state, were the TextState that state points to changed where it is
update_state_in_place(hp, st, new_state) == Scan([hp EXCEPT ![st] = new_state], st)

(* update_state: new_state is the clone of the TextState that state points  *)
(* to, after update_fn; state is made to point to a new Rc of it, and the   *)
(* TextState it pointed to stays as it is.                                  *)
update_state(hp, st, new_state) == Scan(Append(hp, new_state), Len(hp) + 1)

\* ops_with_text_state, the closure of the scan up to the pair it yields
scan_step(hp, st, cache, pg, op) ==
  LET by_graphics_state(ts) ==
        LET found == get_by_graphic_state_name(cache, pg, op.name)
        IN  IF found # None
            THEN [ts EXCEPT !.font = found[1][1], !.font_size = found[1][2]]
            ELSE ts
      by_font(ts) ==
        [ts EXCEPT !.font = get_by_font_name(cache, op.name), !.font_size = op.size]
      by_leading(ts) == [ts EXCEPT !.text_leading = op.leading]
      by_newline(ts) ==
        [ts EXCEPT !.text_matrix = pre_translate(@, Point(0, ts.text_leading))]
      by_translation(ts) ==
        [ts EXCEPT !.text_matrix = pre_translate(@, op.translation)]
      by_matrix(ts) == [ts EXCEPT !.text_matrix = MatrixInto(op.matrix)]
  IN  CASE op.op = "BeginText" -> Scan(Append(hp, TextStateDefault), Len(hp) + 1)
        [] op.op = "GraphicsState" -> update_state(hp, st, by_graphics_state(hp[st]))
        [] op.op = "TextFont" -> update_state(hp, st, by_font(hp[st]))
        [] op.op = "Leading" -> update_state(hp, st, by_leading(hp[st]))
        [] op.op = "TextNewline" -> update_state(hp, st, by_newline(hp[st]))
        [] op.op = "MoveTextPosition" -> update_state(hp, st, by_translation(hp[st]))
        [] op.op = "SetTextMatrix" -> update_state(hp, st, by_matrix(hp[st]))
        [] OTHER -> Scan(hp, st)

\* what page_text returns, or that it panicked
TextOk(text) == <<"Ok", text>>
Utf16Decode == <<"Err", "Utf16Decode">>
Panic == <<"Panic">>

\* page_text, TextDrawAdjusted: the texts of the array decoded up to the first that fails
RECURSIVE decode_array(_, _, _, _)
decode_array(font, array, k, acc) ==
  IF k > Len(array) THEN {Decoded("Ok", acc)}
  ELSE IF array[k][1] # "Text" THEN decode_array(font, array, k + 1, acc)
  ELSE UNION { IF d.result = "Ok" THEN decode_array(font, array, k + 1, acc \o d.text)
               ELSE {Decoded(d.result, acc \o d.text)} :
               d \in decode(font, array[k][2].data) }

\* page_text, the body of the loop: the outcomes, each with what is pushed to out
page_text_op(op, ts) ==
  CASE op.op = "TextDraw" -> decode(ts.font, op.text.data)
    [] op.op = "TextDrawAdjusted" -> decode_array(ts.font, op.array, 1, <<>>)
    [] op.op = "TextNewline" -> {Decoded("Ok", <<10>>)}
    [] op.op = "MoveTextPosition" ->
         {Decoded("Ok", IF op.translation.y = 0 THEN <<10>> ELSE <<>>)}
    [] op.op = "SetTextMatrix" ->
         {Decoded("Ok", IF op.matrix.f - ts.text_matrix.m32 = 0 THEN <<10>> ELSE <<9>>)}
    [] OTHER -> {Decoded("Ok", <<>>)}

(* ops_with_text_state, the closure of flat_map: a page without contents    *)
(* yields nothing; operations(resolve).unwrap() panics where main.rs goes   *)
(* on to the next page; then the FontCache is made, its HashMaps iterated   *)
(* in some order, and the scan starts from a new default TextState.          *)
OpenContents ==
  /\ text_pc = "contents"
  /\ IF page.contents = None
     THEN /\ text_pc' = "ops"
          /\ UNCHANGED <<font_cache, ops, heap, text_state, text_result>>
     ELSE IF page.contents[1].operations[1] = "Err"
     THEN /\ text_pc' = "done"
          /\ text_result' = Panic
          /\ UNCHANGED <<font_cache, ops, heap, text_state>>
     ELSE \E font_order \in KeyOrders(IF page.resources = None THEN {}
                                      ELSE DOMAIN page.resources[1].fonts),
             gs_order \in KeyOrders(IF page.resources = None THEN {}
                                    ELSE DOMAIN page.resources[1].graphics_states) :
            LET f == populate(page, font_order, gs_order)
            IN  IF f.panic
                THEN /\ text_pc' = "done"
                     /\ text_result' = Panic
                     /\ UNCHANGED <<font_cache, ops, heap, text_state>>
                ELSE /\ font_cache' = Some(FontCache(f.fonts))
                     /\ ops' = page.contents[1].operations[2]
                     /\ heap' = <<TextStateDefault>>
                     /\ text_state' = 1
                     /\ text_pc' = "ops"
                     /\ UNCHANGED text_result
  /\ UNCHANGED <<page, next_op, yielded, page_out>>
  /\ UNCHANGED pipeline_vars

(* page_text, one turn of the loop: the scan takes the next operator and    *)
(* yields it with its state, and the body of the loop decodes what the      *)
(* operator draws with the font of that state; an error of decode is        *)
(* returned.                                                                *)
PageTextNext ==
  /\ text_pc = "ops" /\ next_op <= Len(ops)
  /\ LET op == ops[next_op]
         s == scan_step(heap, text_state, font_cache[1], page, op)
     IN  /\ heap' = s.heap
         /\ text_state' = s.state
         /\ yielded' = Append(yielded, [op |-> op, state |-> s.state,
                                        snapshot |-> s.heap[s.state]])
         /\ next_op' = next_op + 1
         /\ \E d \in page_text_op(op, s.heap[s.state]) :
              /\ page_out' = page_out \o d.text
              /\ IF d.result = "Ok" THEN UNCHANGED <<text_pc, text_result>>
                 ELSE /\ text_pc' = "done"
                      /\ text_result' = IF d.result = "Err" THEN Utf16Decode ELSE Panic
  /\ UNCHANGED <<page, font_cache, ops>>
  /\ UNCHANGED pipeline_vars

\* page_text, after the loop: Ok(out)
PageTextEnd ==
  /\ text_pc = "ops" /\ next_op > Len(ops)
  /\ text_pc' = "done"
  /\ text_result' = TextOk(page_out)
  /\ UNCHANGED <<page, font_cache, ops, next_op, heap, text_state, yielded, page_out>>
  /\ UNCHANGED pipeline_vars

TextNext == OpenContents \/ PageTextNext \/ PageTextEnd

\* ---------------------------------------------------------------- pdf_tools: pages

\* a ToUnicode map: 0041 is "A", 0042 is "B", 4100 is "X"
CmapAB == (65 :> <<65>>) @@ (66 :> <<66>>) @@ (16640 :> <<88>>)

FontHelv == Font(Some("Helv"), Some(Resolved(CmapAB)), None)
FontArial == Font(Some("Arial"), None, Some(Encoding("WinAnsiEncoding", (66 :> <<98>>))))
FontExpert == Font(Some("Expert"), None, Some(Encoding("MacExpertEncoding", <<>>)))
FontSymbolF1 == Font(Some("F1"), None, Some(Encoding("SymbolEncoding", <<>>)))
FontCustomF1 == Font(Some("F1"), None, Some(Encoding("None", (65 :> <<97>>))))
FontPlain == Font(None, None, None)
FontBroken == Font(Some("Broken"), Some(Unresolved), None)

\* a graphics state, with the reference and the size of its font if it has one
GsFont(font, size) == [font |-> Some(<<font, size>>)]
GsPlain == [font |-> None]

(* The resources of the pages: none (page.resources() fails); fonts with a  *)
(* character map, an encoding that is not supported and a reference that    *)
(* does not resolve, and graphics states with and without a font; a font    *)
(* without reference, and graphics states whose fonts are named as a font   *)
(* of the resources is, or do not resolve; a font whose ToUnicode stream    *)
(* does not parse.                                                          *)
ResourceChoices ==
  { None,
    Some([fonts |-> [F1 |-> Some(Resolved(FontHelv)), F2 |-> Some(Resolved(FontExpert)),
                     F3 |-> Some(Unresolved)],
          graphics_states |-> [GS1 |-> GsFont(Resolved(FontArial), 9), GS2 |-> GsPlain]]),
    Some([fonts |-> [F1 |-> Some(Resolved(FontArial)), F2 |-> None],
          graphics_states |-> [GS1 |-> GsFont(Resolved(FontSymbolF1), 9),
                               GS2 |-> GsFont(Resolved(FontCustomF1), 7),
                               GS3 |-> GsFont(Unresolved, 6)]]),
    Some([fonts |-> [F1 |-> Some(Resolved(FontHelv)), F2 |-> Some(Resolved(FontBroken))],
          graphics_states |-> [GS1 |-> GsFont(Resolved(FontPlain), 5)]]) }

MaxOps == 3

OpVocab ==
  { BeginText, TextFont("F1", 12), TextFont("F2", 10), GraphicsState("GS1"),
    GraphicsState("GS2"), Leading(14), TextNewline, MoveTextPosition(Point(3, 5)),
    MoveTextPosition(Point(2, 0)), SetTextMatrix(Matrix(2, 0, 0, 2, 10, 20)),
    TextDrawData(<<65, 66>>), TextDrawData(<<255>>),
    TextDrawAdjusted(<<AdjustedText(<<66>>), AdjustedSpacing(3), AdjustedText(<<65>>)>>),
    EndText }

\* a page: its resources, if page.resources() gives them, and its contents, if it has any
PdfPage(resources, contents) == [resources |-> resources, contents |-> contents]

ContentChoices ==
  {None, Some([operations |-> Unresolved])}
    \cup { Some([operations |-> Resolved(os)]) : os \in SeqsUpTo(OpVocab, MaxOps) }

InitText ==
  \E resources \in ResourceChoices, contents \in ContentChoices :
    /\ PipelineIdle
    /\ page = PdfPage(resources, contents)
    /\ text_pc = "contents"
    /\ font_cache = None
    /\ ops = <<>>
    /\ next_op = 1
    /\ heap = <<>>
    /\ text_state = 0
    /\ yielded = <<>>
    /\ page_out = <<>>
    /\ text_result = Running

SpecText == InitText /\ [][TextNext]_vars

\* ---------------------------------------------------------------- the transition table

\* the graphics state of the name is in the resources and has a font
ReferencesFont(name) ==
  /\ page.resources # None
  /\ name \in DOMAIN page.resources[1].graphics_states
  /\ page.resources[1].graphics_states[name].font # None

\* the operators yielded so far
YieldedOps == [k \in 1..Len(yielded) |-> yielded[k].op]

(* C16: every step of the scan yields the next operator of the content     *)
(* stream, paired with the state that the table gives for the operator and *)
(* the state before it: BeginText gives the default state; TextFont the    *)
(* font the cache has for the name and the size; GraphicsState the font    *)
(* and size of the named state if it references a font, else no change;    *)
(* Leading the leading; TextNewline the matrix translated by (0, leading)  *)
(* and MoveTextPosition by the offset, in the space of the matrix;         *)
(* SetTextMatrix the matrix given; any other operator the same state; the  *)
(* fields not named stay.  When page_text has returned Ok the operators    *)
(* yielded are the operators of the stream, in order.                       *)
C16_StatePerOperator ==
  /\ [][next_op' = next_op + 1 =>
          LET op == ops[next_op]
              old == heap[text_state]
              new == heap'[text_state']
              m == old.text_matrix
          IN  /\ yielded' =
                   Append(yielded, [op |-> op, state |-> text_state', snapshot |-> new])
              /\ YieldedOps' = SubSeq(ops, 1, next_op)
              /\ CASE op.op = "BeginText" ->
                        new = TextState(FontInfoDefault, 0, 0, Transform2D(1, 0, 0, 1, 0, 0))
                   [] op.op = "TextFont" ->
                        new = TextState(get_by_font_name(font_cache[1], op.name), op.size,
                                        old.text_leading, m)
                   [] op.op = "GraphicsState" ->
                        IF ReferencesFont(op.name)
                        THEN LET gs == page.resources[1].graphics_states[op.name]
                                 found == get_by_graphic_state_name(font_cache[1], page, op.name)
                             IN  new = TextState(found[1][1], gs.font[1][2],
                                                 old.text_leading, m)
                        ELSE new = old
                   [] op.op = "Leading" ->
                        new = TextState(old.font, old.font_size, op.leading, m)
                   [] op.op = "TextNewline" ->
                        new = TextState(old.font, old.font_size, old.text_leading,
                                        Transform2D(m.m11, m.m12, m.m21, m.m22,
                                                    m.m31 + old.text_leading * m.m21,
                                                    m.m32 + old.text_leading * m.m22))
                   [] op.op = "MoveTextPosition" ->
                        new = TextState(old.font, old.font_size, old.text_leading,
                                        Transform2D(m.m11, m.m12, m.m21, m.m22,
                                                    m.m31 + op.translation.x * m.m11
                                                          + op.translation.y * m.m21,
                                                    m.m32 + op.translation.x * m.m12
                                                          + op.translation.y * m.m22))
                   [] op.op = "SetTextMatrix" ->
                        new = TextState(old.font, old.font_size, old.text_leading,
                                        Transform2D(op.matrix.a, op.matrix.b, op.matrix.c,
                                                    op.matrix.d, op.matrix.e, op.matrix.f))
                   [] OTHER -> new = old /\ text_state' = text_state]_vars
  /\ [](text_result[1] = "Ok" => YieldedOps = ops)

(* C16, witness: the stream SetTextMatrix 2 0 0 2 10 20, Leading 14,        *)
(* TextNewline has been read to its end: three pairs were yielded and the   *)
(* matrix of the last is 2 0 0 2 10 48.                                     *)
C16_Witness ==
  /\ text_result[1] = "Ok"
  /\ ops = <<SetTextMatrix(Matrix(2, 0, 0, 2, 10, 20)), Leading(14), TextNewline>>
  /\ Len(yielded) = 3
  /\ yielded[3].snapshot = TextState(FontInfoDefault, 0, 14, Transform2D(2, 0, 0, 2, 10, 48))

(* C17: a TextState is never changed once it is paired with an operator:   *)
(* the state every yielded pair points to is the state it pointed to when  *)
(* the pair was yielded, font, size, leading and matrix.                    *)
C17_SnapshotsKeepTheirValue ==
  \A k \in 1..Len(yielded) :
    /\ yielded[k].state \in 1..Len(heap)
    /\ heap[yielded[k].state] = yielded[k].snapshot

(* C17, witness: a pair yielded with the font of F1 at size 12, then the   *)
(* leading set and the matrix replaced: the first pair still has leading 0  *)
(* and the identity matrix, the last has the new values.                    *)
C17_Witness ==
  /\ page.resources # None /\ font_cache # None
  /\ ops = <<TextFont("F1", 12), Leading(14), SetTextMatrix(Matrix(2, 0, 0, 2, 10, 20))>>
  /\ Len(yielded) = 3
  /\ heap[yielded[1].state] =
       TextState(get_by_font_name(font_cache[1], "F1"), 12, 0, Identity)
  /\ heap[yielded[3].state].text_leading = 14
  /\ heap[yielded[3].state].text_matrix = Transform2D(2, 0, 0, 2, 10, 20)
  /\ yielded[1].state # yielded[3].state

\* ---------------------------------------------------------------- font lookup

\* the names looked up: those of the resources and of their font objects, and two of neither
FontNames == {"F1", "F2", "F3", "F9", "Helv", "Arial", "Expert", "Broken"}
StateNames == {"GS1", "GS2", "GS3", "GS9"}

(* C20: once the cache is made, the lookup by font name gives the font      *)
(* registered under the name, and the default FontInfo, whose decoder is    *)
(* None, for a name with no font registered; the lookup by graphics-state   *)
(* name gives None exactly when the resources have no state of the name or  *)
(* the state has no font, and else the size of the state's font with the    *)
(* font registered under the name of the state's font object, or the        *)
(* default FontInfo when that object does not resolve, has no name or has   *)
(* no font registered under its name.                                       *)
C20_LookupNeverFails ==
  font_cache # None =>
    LET cache == font_cache[1] IN
    /\ \A name \in FontNames :
         get_by_font_name(cache, name) =
           IF name \in DOMAIN cache.fonts THEN cache.fonts[name] ELSE FontInfo(<<"None">>)
    /\ \A name \in StateNames :
         LET found == get_by_graphic_state_name(cache, page, name)
         IN  IF ~ReferencesFont(name) THEN found = None
             ELSE LET of_state == page.resources[1].graphics_states[name].font[1]
                      font == of_state[1]
                  IN  /\ found # None
                      /\ found[1][2] = of_state[2]
                      /\ found[1][1] =
                           IF /\ font[1] = "Ok"
                              /\ font[2].name # None
                              /\ font[2].name[1] \in DOMAIN cache.fonts
                           THEN cache.fonts[font[2].name[1]]
                           ELSE FontInfo(<<"None">>)

(* C20, witness: F2, whose encoding is not supported, was selected and then *)
(* the graphics state GS1, whose font object is named Arial: the first pair *)
(* has the default FontInfo at size 10, the second the font registered as   *)
(* Arial at size 9, and the graphics state GS2, which has no font, changed  *)
(* nothing.                                                                 *)
C20_Witness ==
  /\ font_cache # None
  /\ ops = <<TextFont("F2", 10), GraphicsState("GS1"), GraphicsState("GS2")>>
  /\ Len(yielded) = 3
  /\ "F2" \notin DOMAIN font_cache[1].fonts
  /\ "Arial" \in DOMAIN font_cache[1].fonts
  /\ yielded[1].snapshot.font = FontInfoDefault /\ yielded[1].snapshot.font_size = 10
  /\ yielded[2].snapshot.font = font_cache[1].fonts["Arial"]
  /\ yielded[2].snapshot.font # FontInfoDefault
  /\ yielded[2].snapshot.font_size = 9
  /\ yielded[3].snapshot = yielded[2].snapshot

\* ---------------------------------------------------------------- unsupported encodings

\* the font of the resources under the name declares a base encoding add_font does not know
UnsupportedFont(name) ==
  /\ page.resources # None
  /\ name \in DOMAIN page.resources[1].fonts
  /\ page.resources[1].fonts[name] # None
  /\ page.resources[1].fonts[name][1][1] = "Ok"
  /\ LET font == page.resources[1].fonts[name][1][2]
     IN  /\ font.to_unicode = None
         /\ font.encoding # None
         /\ font.encoding[1].base \notin
              {"StandardEncoding", "SymbolEncoding", "WinAnsiEncoding", "MacRomanEncoding",
               "None"}

\* the step reads a text-drawing operator that follows the selection of such a font
DrawsWithUnsupportedFont ==
  /\ text_pc = "ops" /\ next_op' = next_op + 1 /\ next_op > 1
  /\ ops[next_op].op \in {"TextDraw", "TextDrawAdjusted"}
  /\ ops[next_op - 1].op = "TextFont"
  /\ UnsupportedFont(ops[next_op - 1].name)

\* a font with an unsupported base encoding is not registered
UnsupportedFontIsSkipped ==
  font_cache # None =>
    \A name \in FontNames : UnsupportedFont(name) => name \notin DOMAIN font_cache[1].fonts

(* C19: a font that declares a base encoding that is not supported is not   *)
(* registered; a text drawn right after the selection of such a font adds   *)
(* nothing to the output; and page_text does not return an error for it.    *)
C19_UnsupportedFontDrawsNothing ==
  /\ []UnsupportedFontIsSkipped
  /\ [][DrawsWithUnsupportedFont => page_out' = page_out /\ text_result' = Running]_vars

\* ---------------------------------------------------------------- decode on bounded data

MaxData == 4

(* Data: with and without the byte-order mark, then at most MaxData bytes   *)
(* among 00, "A" and "B", or among 00, "A" and the first bytes D8 and DC of *)
(* the surrogates, or among "A", the two bytes C3 A9 of U+00E9 and FF.      *)
DataAlphabets == { {0, 65, 66}, {0, 65, 216, 220}, {65, 195, 169, 255} }

DataChoices ==
  { bom \o body : bom \in {<<>>, <<254, 255>>},
                  body \in UNION { SeqsUpTo(bytes, MaxData) : bytes \in DataAlphabets } }

(* The font F1 of the page: with a character map, with a base encoding and  *)
(* a difference, or not resolved, so that F1 gives the default FontInfo.    *)
DecodeFonts == {Some(Resolved(FontHelv)), Some(Resolved(FontArial)), Some(Unresolved)}

InitDecode ==
  \E font \in DecodeFonts, data \in DataChoices :
    /\ PipelineIdle
    /\ page = PdfPage(Some([fonts |-> [F1 |-> font], graphics_states |-> <<>>]),
                      Some([operations |->
                              Resolved(<<TextFont("F1", 12), TextDrawData(data)>>)]))
    /\ text_pc = "contents"
    /\ font_cache = None
    /\ ops = <<>>
    /\ next_op = 1
    /\ heap = <<>>
    /\ text_state = 0
    /\ yielded = <<>>
    /\ page_out = <<>>
    /\ text_result = Running

SpecDecode == InitDecode /\ [][TextNext]_vars

\* the step decodes the data of a TextDraw with a font that has a character map
DecodesWithCmap ==
  /\ text_pc = "ops" /\ next_op' = next_op + 1
  /\ ops[next_op].op = "TextDraw"
  /\ heap[text_state].font.decoder[1] = "Cmap"

\* the consecutive 2-byte big-endian codes of data
Codes2(data) == [k \in 1..(Len(data) \div 2) |-> data[2 * k - 1] * 256 + data[2 * k]]

RECURSIVE StringsOf(_, _)
StringsOf(cmap, codes) ==
  IF codes = <<>> THEN <<>>
  ELSE (IF Head(codes) \in DOMAIN cmap THEN cmap[Head(codes)] ELSE <<>>)
         \o StringsOf(cmap, Tail(codes))

(* C18: with a character map, data that begins with FE FF gives the strings *)
(* the map has for its consecutive 2-byte codes, and other data the strings *)
(* the map has for its bytes, in order, a code the map does not have giving *)
(* nothing; and decode returns no error.                                    *)
C18_CmapDecodesCodes ==
  [][DecodesWithCmap =>
       LET data == ops[next_op].text.data
           cmap == heap[text_state].font.decoder[2]
       IN  /\ text_result' = Running
           /\ page_out' = page_out \o StringsOf(cmap, IF data # <<>> /\ Len(data) >= 2
                                                         /\ data[1] = 254 /\ data[2] = 255
                                                      THEN Codes2(data)
                                                      ELSE data)]_vars

\* the same for data without the byte-order mark and for data that is the mark alone
CmapDecodesBytes ==
  [][DecodesWithCmap /\ (~StartsWithBom(ops[next_op].text.data)
                           \/ Len(ops[next_op].text.data) = 2) =>
       /\ text_result' = Running
       /\ page_out' = page_out \o StringsOf(heap[text_state].font.decoder[2],
                                            IF StartsWithBom(ops[next_op].text.data)
                                            THEN <<>> ELSE ops[next_op].text.data)]_vars

\* decode with a character map never returns an error
CmapNeverFails == [][DecodesWithCmap => text_result' = Running]_vars

\* ---------------------------------------------------------------- passthrough

\* the step decodes the data of a TextDraw with a font that has no decoder
DecodesPassthrough ==
  /\ text_pc = "ops" /\ next_op' = next_op + 1
  /\ ops[next_op].op = "TextDraw"
  /\ heap[text_state].font.decoder = <<"None">>

\* the surrogate at k has no partner: a high one no low one after it, a low one no high before
Unpaired(units, k) ==
  \/ /\ units[k] >= 55296 /\ units[k] <= 56319
     /\ (k = Len(units) \/ units[k + 1] < 56320 \/ units[k + 1] > 57343)
  \/ /\ units[k] >= 56320 /\ units[k] <= 57343
     /\ (k = 1 \/ units[k - 1] < 55296 \/ units[k - 1] > 56319)

\* the chars of well-formed UTF-16: a unit alone, or a high and a low surrogate together
Utf16Chars(units) ==
  Flatten([k \in 1..Len(units) |->
             IF units[k] < 55296 \/ units[k] > 57343 THEN <<units[k]>>
             ELSE IF units[k] <= 56319
             THEN <<65536 + (units[k] - 55296) * 1024 + (units[k + 1] - 56320)>>
             ELSE <<>>])

(* The byte at k is out of place in UTF-8, for bytes below E0: a byte from  *)
(* C2 to DF not followed by a byte from 80 to BF, a byte from 80 to BF not  *)
(* preceded by one from C2 to DF, C0 and C1; and every byte from F5 on.     *)
Utf8Misplaced(data, k) ==
  \/ data[k] >= 245
  \/ data[k] \in {192, 193}
  \/ /\ data[k] >= 194 /\ data[k] <= 223
     /\ (k = Len(data) \/ data[k + 1] < 128 \/ data[k + 1] > 191)
  \/ /\ data[k] >= 128 /\ data[k] <= 191
     /\ (k = 1 \/ data[k - 1] < 194 \/ data[k - 1] > 223)

\* the chars of well-formed UTF-8 of one and two bytes
Utf8Chars(data) ==
  Flatten([k \in 1..Len(data) |->
             IF data[k] < 128 THEN <<data[k]>>
             ELSE IF data[k] >= 194 THEN <<(data[k] - 192) * 64 + (data[k + 1] - 128)>>
             ELSE <<>>])

(* C21: with the default FontInfo, data that starts with FE FF is decoded   *)
(* as the UTF-16BE units of the bytes after the mark: an unpaired surrogate *)
(* ends page_text with the decode error, and else the chars of the units    *)
(* are appended to the output; other data is decoded as UTF-8: a byte out   *)
(* of place ends page_text with the same error, and else the chars of the   *)
(* bytes are appended.  (For an odd number of bytes after the mark the      *)
(* units are those the pdf crate makes of them, see utf16be_to_char; the    *)
(* property is about an even number.)                                       *)
C21_PassthroughDecodes ==
  [][DecodesPassthrough =>
       LET data == ops[next_op].text.data
           marked == Len(data) >= 2 /\ data[1] = 254 /\ data[2] = 255
           units == Codes2(SubSeq(data, 3, Len(data)))
       IN  IF marked /\ Len(data) % 2 = 0
           THEN IF \E k \in 1..Len(units) : Unpaired(units, k)
                THEN text_result' = <<"Err", "Utf16Decode">>
                ELSE /\ text_result' = Running
                     /\ page_out' = page_out \o Utf16Chars(units)
           ELSE IF marked THEN TRUE
           ELSE IF \E k \in 1..Len(data) : Utf8Misplaced(data, k)
                THEN text_result' = <<"Err", "Utf16Decode">>
                ELSE /\ text_result' = Running
                     /\ page_out' = page_out \o Utf8Chars(data)]_vars

(* C21, witness: FE FF D8 00 DC 00 was drawn with the default FontInfo and *)
(* page_text returned the one char U+10000.                                 *)
C21_Witness ==
  /\ ops = <<TextFont("F1", 12), TextDrawData(<<254, 255, 216, 0, 220, 0>>)>>
  /\ font_cache # None /\ "F1" \notin DOMAIN font_cache[1].fonts
  /\ text_result = TextOk(<<65536>>)

\* ---------------------------------------------------------------- sections

(* A page of two sections: the first opens a row and goes on with at most  *)
(* MaxSide texts, then the second section starts, with or without a        *)
(* section terminator before it, passes its header and goes on with at     *)
(* most MaxSide texts.                                                      *)
MaxSide == 2

SideVocab == {Shop, Amt5, Pts7, Date2, Transactions}

InitSections ==
  \E before \in SeqsUpTo(SideVocab, MaxSide), after \in SeqsUpTo(SideVocab, MaxSide) :
    StartPage(<<Domestic, PI, Date1>> \o before \o <<International, PI>> \o after)

SpecSections == InitSections /\ [][ParseNext]_vars

\* a section-start label was read after the date that started the row in progress
LabelSinceAnchor ==
  \E j \in (anchor + 1)..(i - 1) : texts[j] \in SectionStartLabels

(* C22: a text read after a section-start label changes nothing of a row   *)
(* whose date was read before that label: as long as that row stays in     *)
(* progress its description, points and amount are what they were.          *)
C22_SectionsAreIndependent ==
  [][(ReadsText /\ anchor > 0 /\ state.in_row /\ LabelSinceAnchor
        /\ state'.in_row /\ anchor' = anchor)
       => /\ state'.transaction.description = state.transaction.description
          /\ state'.transaction.points = state.transaction.points
          /\ state'.transaction.amount = state.transaction.amount
          /\ state'.desc_parts = state.desc_parts]_vars

\* ---------------------------------------------------------------- finalization

(* The step finalizes the row in progress: a section terminator or a date   *)
(* is read in a section past its header, or the page ends.                  *)
Finalizes ==
  \/ ReadsText /\ rules' # rules /\ rules'[i] \in {"section_end", "new_date"}
  \/ main_pc = "texts" /\ i > Len(texts) /\ main_pc' = "pages"

(* C23: when a row in progress is finalized it is emitted exactly when its  *)
(* accumulated description parts are non-empty, foreign-currency fragments  *)
(* included, and its description is then those parts joined by a space.     *)
C23_EmittedIffParts ==
  [][(Finalizes /\ state.in_row)
       => IF state.desc_parts # <<>>
          THEN /\ Len(emitted') = Len(emitted) + 1
               /\ emitted'[Len(emitted')].t.description = JoinStr(state.desc_parts, <<" ">>)
          ELSE emitted' = emitted]_vars

\* ---------------------------------------------------------------- section end

\* the step reads a text that is recognized as a section terminator
EndsSection == ReadsText /\ rules' # rules /\ rules'[i] = "section_end"

(* C24: the step that recognizes a section terminator finalizes the row in  *)
(* progress (a row with a free-text description is emitted once, with its   *)
(* parts joined, date, points and amount; a row with no part is not; no    *)
(* other record is emitted) and leaves the machine outside any section     *)
(* with no row in progress and nothing kept of the row.  Outside a section  *)
(* every text but a section-start label, dates included, leaves the        *)
(* machine as it is and emits nothing, and so does the end of the page.     *)
C24_TerminatorEndsSection ==
  [][/\ EndsSection =>
          /\ state.in_transactions /\ state.past_header
          /\ IF state.in_row /\ state.transaction.description # <<>>
             THEN /\ Len(emitted') = Len(emitted) + 1
                  /\ SubSeq(emitted', 1, Len(emitted)) = emitted
                  /\ emitted'[Len(emitted')].t
                       = [state.transaction
                            EXCEPT !.description = JoinStr(state.desc_parts, <<" ">>)]
             ELSE IF ~state.in_row \/ state.desc_parts = <<>>
             THEN emitted' = emitted
             ELSE Len(emitted') <= Len(emitted) + 1
          /\ ~state'.in_transactions /\ ~state'.in_row /\ ~state'.has_amount
          /\ state'.desc_parts = <<>> /\ state'.transaction = TransactionDefault
     /\ (ReadsText /\ ~state.in_transactions /\ texts[i] \notin SectionStartLabels)
          => /\ state' = state /\ emitted' = emitted /\ anchor' = anchor
             /\ ~state.in_row
     /\ (main_pc = "texts" /\ i > Len(texts) /\ ~state.in_transactions)
          => emitted' = emitted]_vars

(* The row SHOP is emitted at the terminator, and the date after it is read *)
(* outside the section: no row in progress, no second record.               *)
C24_Witness ==
  /\ texts = <<Domestic, PI, Date1, Shop, Transactions, Date1>>
  /\ rules = <<"section_start", "past_header", "new_date", "description", "section_end",
               "outside">>
  /\ Len(emitted) = 1 /\ emitted[1].t.description = Shop /\ emitted[1].at = 5
  /\ ~state.in_transactions /\ ~state.in_row

\* ---------------------------------------------------------------- the header

\* the step reads a text in the header region of a section
InHeader == ReadsText /\ state.in_transactions /\ ~state.past_header

\* the step reads the text that follows a header marker
AfterMarker == ReadsText /\ i > 1 /\ rules[i - 1] = "past_header"

\* the step starts the row of the date it reads
StartsRow ==
  /\ state'.in_row /\ ~state'.has_amount /\ state'.desc_parts = <<>>
  /\ state'.transaction = [TransactionDefault EXCEPT !.date = DateValue(texts[i])]
  /\ anchor' = i

\* the step drops the text it reads and spends the one-shot skip
Dropped == state' = [state EXCEPT !.skip_next_non_date = FALSE] /\ emitted' = emitted

(* In the header region a text that is neither a marker nor a section-start *)
(* label, a date or a terminator included, leaves the machine as it is; a   *)
(* marker passes the header and arms the one-shot skip.                     *)
HeaderUntilMarker ==
  /\ (InHeader /\ texts[i] \notin SectionStartLabels \cup {args.name, PI})
       => state' = state /\ emitted' = emitted
  /\ (InHeader /\ texts[i] \in {args.name, PI})
       => /\ state' = [state EXCEPT !.past_header = TRUE, !.skip_next_non_date = TRUE]
          /\ emitted' = emitted

\* a text is dropped by the one-shot skip only when it follows the marker
SkipOnlyAfterMarker ==
  (ReadsText /\ rules' # rules /\ rules'[i] = "skip") => AfterMarker

(* C25, as stated: the text after the marker always clears the one-shot    *)
(* skip; it starts a row if it is a date and is dropped if not.             *)
C25_NextFragmentClearsSkip ==
  [][/\ HeaderUntilMarker
     /\ AfterMarker =>
          /\ ~state'.skip_next_non_date
          /\ IF texts[i] \in DateTexts THEN StartsRow ELSE Dropped
     /\ SkipOnlyAfterMarker]_vars

(* C25: the text after the marker clears the one-shot skip unless it is a   *)
(* section-start label, which re-enters the header with the skip still    *)
(* armed; otherwise it starts a row if it is a date and is dropped if not.  *)
(* No text is dropped by the skip but the one that follows a marker.        *)
C25_OneShotSkip ==
  [][/\ HeaderUntilMarker
     /\ AfterMarker =>
          IF texts[i] \in SectionStartLabels
          THEN state' = [state EXCEPT !.past_header = FALSE] /\ emitted' = emitted
          ELSE /\ ~state'.skip_next_non_date
               /\ IF texts[i] \in DateTexts THEN StartsRow ELSE Dropped
     /\ SkipOnlyAfterMarker]_vars

(* A section-start label follows the marker and leaves the skip armed; the  *)
(* text after the second marker is dropped and clears it.                   *)
C25_Witness ==
  /\ texts = <<Domestic, PI, Domestic, PI, Shop>>
  /\ rules = <<"section_start", "past_header", "section_start", "past_header", "skip">>
  /\ state.in_transactions /\ state.past_header /\ ~state.skip_next_non_date
  /\ ~state.in_row /\ emitted = <<>>

\* ---------------------------------------------------------------- descriptions

\* the kinds of fragment the description leaves out
IsAmountFragment(text) ==
  /\ ~is_skippable_symbol(text) /\ ~is_page_number(text) /\ ~is_page_header(text)
  /\ ~is_foreign_currency(text)
  /\ Contains(text, <<".">>) /\ parse_amount(text, FALSE) # None

IsFreeText(text) ==
  /\ ~is_skippable_symbol(text) /\ ~is_page_number(text) /\ ~is_page_header(text)
  /\ ~is_foreign_currency(text) /\ ~IsAmountFragment(text) /\ parse_points(text) = None

(* The fragments of a row: the texts after its date, up to the text that   *)
(* finalizes it and no further than the next section-start label.           *)
OwnFragments(row) ==
  LET labels == { j \in 1..Len(row) : row[j] \in SectionStartLabels }
      first == IF labels = {} THEN Len(row) + 1
               ELSE CHOOSE j \in labels : \A k \in labels : j <= k
  IN  SubSeq(row, 1, first - 1)

(* The fragments of a row that make its description: the foreign-currency  *)
(* fragments, and the free texts with no amount fragment before them.       *)
DescriptionFragments(row) ==
  LET keeps(n) == \/ is_foreign_currency(row[n])
                  \/ /\ IsFreeText(row[n])
                     /\ \A k \in 1..(n - 1) : ~IsAmountFragment(row[k])
      kept[n \in 0..Len(row)] ==
        IF n = 0 THEN <<>>
        ELSE IF keeps(n) THEN Append(kept[n - 1], row[n]) ELSE kept[n - 1]
  IN  kept[Len(row)]

(* C26: the description of every emitted row is its description fragments, *)
(* in the order they arrived, joined by single spaces; a free text that     *)
(* arrived after the amount is not among them.                              *)
C26_DescriptionIsJoinedFragments ==
  \A k \in 1..Len(emitted) :
    emitted[k].t.description
      = JoinStr(DescriptionFragments(OwnFragments(emitted[k].row)), <<" ">>)

\* ---------------------------------------------------------------- the flags

(* C27: in every state of the row machine within a page, a row in progress *)
(* is inside a transactions section, an assigned amount belongs to a row   *)
(* in progress, description parts are kept only while a row is in          *)
(* progress, and the Transaction has a description only if parts are kept.  *)
C27_FlagsAreConsistent ==
  /\ state.in_row => state.in_transactions
  /\ state.has_amount => state.in_row
  /\ state.desc_parts # <<>> => state.in_row
  /\ state.transaction.description # <<>> => state.desc_parts # <<>>

(* A row in progress with a description part and its amount assigned, the  *)
(* free text after the amount dropped.                                      *)
C27_Witness ==
  /\ main_pc = "texts" /\ i = 7
  /\ texts = <<Domestic, PI, Date1, Shop, Amt5, Shop>>
  /\ state.in_transactions /\ state.in_row /\ state.has_amount
  /\ state.desc_parts = <<Shop>> /\ state.transaction.description = Shop

====
